---- MODULE Spec2Model ----
(***************************************************************************)
(* The SD card driver of drivers/sdcard.c: the four facade functions, the  *)
(* state machine that G_SdCardStateMachine points at (one action per state *)
(* function, each run to completion once per scheduler tick), and the      *)
(* collaborators the driver talks to: the SSP bus layer (ownership,        *)
(* message queue, receive-buffer write cursor), the card-detect pin, the   *)
(* card's answers and the 1 ms system time.                                *)
(***************************************************************************)
EXTENDS Integers, Sequences, FiniteSets, TLC

(***************************************************************************)
(* Sizes.  The header sdcard.h is not part of the sources, so the sizes    *)
(* and periods it sets are parameters of the model.                        *)
(***************************************************************************)
SDCARD_RX_BUFFER_SIZE == 8      \* capacity of SD_au8RxBuffer
SD_WAKEUP_BYTES == 1            \* dummy bytes read to wake the card
SD_CMD_RETRIES == 1             \* extra response polls per command
SD_SPI_WAIT_TIME_MS == 4        \* WaitReady / ReadCMD8 / ReadCMD58 / WaitSSP period
SD_WAIT_TIME == 3               \* WaitCommand period
SD_READ_TOKEN_MS == 3           \* WaitStartToken period
SD_SECTOR_READ_TIMEOUT_MS == 4  \* DataTransfer period
BlockBytes == 2                 \* stands for the 512 data bytes of one sector
MaxEvents == 2                  \* grants of the bus, plus busy or wrong answers of the
                                \* card, refusals by the bus layer and polls by the
                                \* client that find the card absent, in one run
MaxAdvance == 20                \* largest advance amount tried on the cursor alone
MaxBusy == 2                    \* idle answers to ACMD41 a card gives while it initialises,
                                \* in one detection cycle

SD_CMD_SIZE == 7                \* length of every command array
CrcBytes == 2                   \* 514 - 512: checksum bytes behind the sector
SectorBytes == 512              \* byte address = sector address * 512
Half == 65536                   \* a u32 is kept as <<high 16 bits, low 16 bits>>

\* Byte values of the SD protocol in SPI mode.
SD_STATUS_READY == 0
SD_STATUS_IDLE == 1
SD_VHS_VALUE == 1
SD_CHECK_PATTERN == 170
TOKEN_START_BLOCK == 254
SSP_DUMMY_BYTE == 255
BIT6 == 64
BIT7 == 128
SD_OCR_CCS_BIT == 64

\* elapsed time saturates here: no period is longer
TimeCap ==
  CHOOSE m \in {SD_SPI_WAIT_TIME_MS, SD_WAIT_TIME, SD_READ_TOKEN_MS, SD_SECTOR_READ_TIMEOUT_MS} :
    \A p \in {SD_SPI_WAIT_TIME_MS, SD_WAIT_TIME, SD_READ_TOKEN_MS, SD_SECTOR_READ_TIMEOUT_MS} : p <= m

VARIABLES
  G_SdCardStateMachine,     \* name of the state function the pointer holds
  SD_u32Flags,              \* subset of {"INSERTED","SD1","SD2","HC"}
  SD_CardState,             \* SdCardStateType
  SD_u8ErrorCode,
  SD_WaitReturnState,
  SD_NextCommand,
  SD_Ssp,                   \* "NULL" or "SSP0" (the pointer SspRequest returned)
  SD_au8RxBuffer,           \* [0..SDCARD_RX_BUFFER_SIZE-1 -> byte]
  SD_pu8RxBufferNextByte,   \* index the bus layer writes next
  SD_pu8RxBufferParser,     \* index the driver parses next
  elapsed,                  \* G_u32SystemTime1ms - SD_u32Timeout, saturating at TimeCap
  SD_u32CurrentMsgToken,    \* 0, or 1 for any non-zero token
  SD_u32Address,            \* <<high, low>>
  SD_au8CMD17,              \* the four argument bytes SD_au8CMD17[1..4]
  SD_au8ACMD41,             \* the byte SD_au8ACMD41[1]
  u8Retries,                \* static of SdCardWaitCommand
  sspOwner,                 \* "sd" while the driver holds the bus, else "none"
  sspGrants,                \* how often the bus has been granted to the driver
  faults,                   \* how many answers so far were busy, wrong or refusals,
                            \* and how many polls by the client found the card absent
  sspCS,                    \* chip select asserted
  sspQueue,                 \* transfers the bus layer has accepted and not finished
  msgComplete,              \* QueryMessageStatus(current token) == COMPLETE
  ret,                      \* what the facade call of the last step returned
  cyc,                      \* what has been seen since the bus was granted for detection
  unowned,                  \* bus-layer calls the last step made without holding the bus
  refused,                  \* transfers the last step submitted and got token 0 for
  advC, advN, advR          \* cursor, amount and result of the cursor-only check

vars == << G_SdCardStateMachine, SD_u32Flags, SD_CardState, SD_u8ErrorCode,
           SD_WaitReturnState, SD_NextCommand, SD_Ssp, SD_au8RxBuffer,
           SD_pu8RxBufferNextByte, SD_pu8RxBufferParser, elapsed,
           SD_u32CurrentMsgToken, SD_u32Address, SD_au8CMD17, SD_au8ACMD41,
           u8Retries, sspOwner, sspGrants, faults, sspCS, sspQueue, msgComplete,
           ret, cyc, unowned, refused, advC, advN, advR >>

advVars == << advC, advN, advR >>

\* everything the driver and the bus layer hold
driverVars == << G_SdCardStateMachine, SD_u32Flags, SD_CardState, SD_u8ErrorCode,
                 SD_WaitReturnState, SD_NextCommand, SD_Ssp, SD_au8RxBuffer,
                 SD_pu8RxBufferNextByte, SD_pu8RxBufferParser, elapsed,
                 SD_u32CurrentMsgToken, SD_u32Address, SD_au8CMD17, SD_au8ACMD41,
                 u8Retries, sspOwner, sspGrants, faults, sspCS, sspQueue, msgComplete >>

Index == 0 .. (SDCARD_RX_BUFFER_SIZE - 1)

NoCall == [fn |-> "none", val |-> "none", data |-> << >>, pin |-> "none"]

NewCycle == [cmd8 |-> "none", vhs |-> "none", pat |-> "none", ccs |-> "none",
             cmd16 |-> "none", frame |-> << "none", << 0, 0, 0, 0 >> >>,
             sector |-> << 0, 0 >>, hc |-> FALSE,
             n55 |-> 0, n41 |-> 0, notReady |-> 0, extra |-> 0, lead |-> 0]

\* The whole state as one record, so that a state function can be written as
\* the composition of the calls it makes.
Cur ==
  [ sm |-> G_SdCardStateMachine, flags |-> SD_u32Flags, card |-> SD_CardState,
    err |-> SD_u8ErrorCode, wret |-> SD_WaitReturnState, next |-> SD_NextCommand,
    ssp |-> SD_Ssp, buf |-> SD_au8RxBuffer, wr |-> SD_pu8RxBufferNextByte,
    rd |-> SD_pu8RxBufferParser, el |-> elapsed, tok |-> SD_u32CurrentMsgToken,
    addr |-> SD_u32Address, cmd17 |-> SD_au8CMD17, acmd41 |-> SD_au8ACMD41,
    retries |-> u8Retries, owner |-> sspOwner, grants |-> sspGrants,
    faults |-> faults, cs |-> sspCS,
    q |-> sspQueue, done |-> msgComplete, cyc |-> cyc, unowned |-> {},
    refused |-> {} ]

Commit(r) ==
  /\ G_SdCardStateMachine' = r.sm
  /\ SD_u32Flags' = r.flags
  /\ SD_CardState' = r.card
  /\ SD_u8ErrorCode' = r.err
  /\ SD_WaitReturnState' = r.wret
  /\ SD_NextCommand' = r.next
  /\ SD_Ssp' = r.ssp
  /\ SD_au8RxBuffer' = r.buf
  /\ SD_pu8RxBufferNextByte' = r.wr
  /\ SD_pu8RxBufferParser' = r.rd
  /\ elapsed' = r.el
  /\ SD_u32CurrentMsgToken' = r.tok
  /\ SD_u32Address' = r.addr
  /\ SD_au8CMD17' = r.cmd17
  /\ SD_au8ACMD41' = r.acmd41
  /\ u8Retries' = r.retries
  /\ sspGrants' = r.grants
  /\ faults' = r.faults
  /\ sspOwner' = r.owner
  /\ sspCS' = r.cs
  /\ sspQueue' = r.q
  /\ msgComplete' = r.done
  /\ cyc' = r.cyc
  /\ unowned' = r.unowned
  /\ refused' = r.refused


(***************************************************************************)
(* u32 arithmetic on <<high, low>> halves (TLC's integers are 32-bit       *)
(* signed, so a u32 product cannot be computed directly).                  *)
(***************************************************************************)
\* SD_u32Address *= 512: the product truncated to 32 bits.
MulSector(a) ==
  LET lo == a[2] * SectorBytes
      hi == a[1] * SectorBytes + (lo \div Half)
  IN  << hi % Half, lo % Half >>

\* the four bytes in the opposite order, low byte first
AddressBytesLowFirst(a) == << a[2] % 256, a[2] \div 256, a[1] % 256, a[1] \div 256 >>

\* (u8)(x >> 24), (u8)(x >> 16), (u8)(x >> 8), (u8)x
AddressBytes(a) == << a[1] \div 256, a[1] % 256, a[2] \div 256, a[2] % 256 >>

(***************************************************************************)
(* Receive-buffer cursor.                                                  *)
(***************************************************************************)
\* the wrap test one element late: the cursor may rest one past the last element
RECURSIVE AdvanceWrapsLate(_, _)
AdvanceWrapsLate(c, n) ==
  IF n = 0 THEN c
  ELSE AdvanceWrapsLate(
         IF c + 1 > SDCARD_RX_BUFFER_SIZE THEN 0 ELSE c + 1, n - 1)

RECURSIVE AdvanceSD_pu8RxBufferParser(_, _)
AdvanceSD_pu8RxBufferParser(c, n) ==
  IF n = 0 THEN c
  ELSE AdvanceSD_pu8RxBufferParser(
         IF c + 1 = SDCARD_RX_BUFFER_SIZE THEN 0 ELSE c + 1, n - 1)

\* cyc.lead: the bytes the parser has been advanced by, less the bytes the bus
\* layer has stored, since the cursors were last set to the same place
Adv(r, n) == [r EXCEPT !.rd = AdvanceSD_pu8RxBufferParser(r.rd, n), !.cyc.lead = @ + n]

FlushSdRxBuffer(r) == [r EXCEPT !.rd = r.wr, !.cyc.lead = 0]

\* *SD_pu8RxBufferParser
Peek(r) == r.buf[r.rd]

(***************************************************************************)
(* Time.                                                                   *)
(***************************************************************************)
IsTimeUp(r, period) == r.el >= period

\* SD_u32Timeout = G_u32SystemTime1ms
StartTimer(r) == [r EXCEPT !.el = 0]

\* the comparison made strict: the period has to be exceeded, not reached
CheckTimeoutWhenExceeded(r, period) ==
  IF r.el > period
  THEN [r EXCEPT !.err = "SD_ERROR_TIMEOUT", !.sm = "SdError"]
  ELSE r

CheckTimeout(r, period) ==
  IF IsTimeUp(r, period)
  THEN [r EXCEPT !.err = "SD_ERROR_TIMEOUT", !.sm = "SdError"]
  ELSE r

(***************************************************************************)
(* The SSP bus layer, as the driver uses it.                               *)
(***************************************************************************)
\* SD_Ssp = SspRequest(&SD_sSsp0Config): granted iff nobody holds the bus
\* (free: no other task holds it).
SspRequest(r, free) ==
  IF free /\ r.owner = "none"
  THEN [r EXCEPT !.owner = "sd", !.ssp = "SSP0", !.grants = @ + 1]
  ELSE [r EXCEPT !.ssp = "NULL",
                 !.faults = IF r.grants + r.faults < MaxEvents /\ r.owner = "none"
                            THEN @ + 1 ELSE @]

\* A call made while the driver does not hold the bus has no effect on the
\* driver's side of the bus; it is noted in unowned.
NotOwner(r, op) == [r EXCEPT !.unowned = @ \cup {op}]

\* SspRelease(SD_Ssp): gives the bus back and abandons the queued transfers.
SspRelease(r) ==
  IF r.owner = "sd"
  THEN [r EXCEPT !.owner = "none", !.q = << >>, !.cs = FALSE]
  ELSE NotOwner(r, "SspRelease")

SspAssertCS(r) == IF r.owner = "sd" THEN [r EXCEPT !.cs = TRUE] ELSE NotOwner(r, "SspAssertCS")

SspDeAssertCS(r) == IF r.owner = "sd" THEN [r EXCEPT !.cs = FALSE] ELSE NotOwner(r, "SspDeAssertCS")

\* the bus-layer function that submits a transfer of this kind
BusOp(what) ==
  CASE what \in {"ready", "resp", "token"} -> "SspReadByte"
    [] what = "cmd"                         -> "SspWriteData"
    [] OTHER                                -> "SspReadData"

\* A transfer handed to the bus layer.  ok: the layer accepts it and returns
\* a non-zero token; otherwise the token is 0.  A transfer accepted while the
\* driver does not hold the bus is never carried out.
Refuse(r, what) ==
  [r EXCEPT !.tok = 0, !.faults = @ + 1, !.refused = @ \cup {what}]

Submit(r, entry, ok) ==
  IF r.owner # "sd"
  THEN NotOwner(IF ok THEN [r EXCEPT !.tok = 1, !.done = FALSE]
                ELSE Refuse(r, entry.what),
                BusOp(entry.what))
  ELSE IF ~ok THEN Refuse(r, entry.what)
  ELSE [r EXCEPT !.tok = 1, !.done = FALSE,
                 !.q = Append([i \in 1 .. Len(r.q) |-> [r.q[i] EXCEPT !.cur = FALSE]],
                              entry)]

\* SspReadByte(SD_Ssp).  what says which byte the driver is after: "ready"
\* (the card's ready byte before a command), "resp" (one more poll for the
\* response to SD_NextCommand), "token" (the start-of-block token).
SspReadByte(r, what, ok) == Submit(r, [what |-> what, cmd |-> r.next, cur |-> TRUE], ok)

\* SspReadData(SD_Ssp, n).  what: "wake" (n = SD_WAKEUP_BYTES), "echo" (4 bytes
\* behind CMD8), "ocr" (4 bytes behind CMD58), "block" (514 bytes)
SspReadData(r, what, ok) == Submit(r, [what |-> what, cmd |-> r.next, cur |-> TRUE], ok)

FrameArgs(r, cmd) ==
  CASE cmd = "CMD8"   -> << 0, 0, SD_VHS_VALUE, SD_CHECK_PATTERN >>
    [] cmd = "CMD16"  -> << 0, 0, 2, 0 >>
    [] cmd = "CMD17"  -> r.cmd17
    [] cmd = "ACMD41" -> << r.acmd41, 0, 0, 0 >>
    [] OTHER          -> << 0, 0, 0, 0 >>

\* SspWriteData(SD_Ssp, SD_CMD_SIZE, SD_NextCommand); the frame that goes out
\* is remembered in cyc.frame, and the CMD55 and ACMD41 frames are counted.
SspWriteData(r, cmd, ok) ==
  LET s == Submit(r, [what |-> "cmd", cmd |-> cmd, cur |-> TRUE], ok)
  IN  IF ok /\ r.owner = "sd"
      THEN [s EXCEPT !.cyc.frame = << cmd, FrameArgs(r, cmd) >>,
                     !.cyc.cmd16 = IF cmd = "CMD16" THEN "issued" ELSE @,
                     !.cyc.n55 = IF cmd = "CMD55" THEN @ + 1 ELSE @,
                     !.cyc.n41 = IF cmd = "ACMD41" THEN @ + 1 ELSE @,
                     !.cyc.extra = 0]
      ELSE [s EXCEPT !.cyc.extra = 0]

QueryComplete(r) == r.tok # 0 /\ r.done

(***************************************************************************)
(* Facade.                                                                 *)
(***************************************************************************)
\* det: P0_22_SD_DET reads low, a card is in the slot
\* the status left alone when the pin reads "no card"
SdIsCardInsertedKeepsStatus(r, det) ==
  IF ~det
  THEN [r EXCEPT !.flags = @ \ {"INSERTED"}]
  ELSE [r EXCEPT !.flags = @ \cup {"INSERTED"}]

\* the flag only ever cleared: the branch for a card in the slot does nothing
SdIsCardInsertedOnlyClears(r, det) ==
  IF ~det
  THEN [r EXCEPT !.flags = @ \ {"INSERTED"}, !.card = "SD_NO_CARD"]
  ELSE r

SdIsCardInserted(r, det) ==
  IF ~det
  THEN [r EXCEPT !.flags = @ \ {"INSERTED"}, !.card = "SD_NO_CARD"]
  ELSE [r EXCEPT !.flags = @ \cup {"INSERTED"}]

SdIsCardInsertedReturn(r, det) == det

\* the status test widened: a read is also started over data not yet fetched
SdReadBlockAlsoWhenDataReady(r, sector) ==
  IF r.card \in {"SD_IDLE", "SD_DATA_READY"}
  THEN [r EXCEPT !.addr = IF "HC" \notin r.flags THEN MulSector(sector) ELSE sector,
                 !.card = "SD_READING"]
  ELSE r

SdReadBlock(r, sector) ==
  IF r.card = "SD_IDLE"
  THEN [r EXCEPT !.addr = IF "HC" \notin r.flags THEN MulSector(sector) ELSE sector,
                 !.card = "SD_READING"]
  ELSE r

SdReadBlockReturn(r, sector) == r.card = "SD_IDLE"

\* a write path begun the way the read path is: the status is set for the sequencer
SdWriteBlockStartsWrite(r, address) ==
  IF r.card = "SD_IDLE" THEN [r EXCEPT !.addr = address, !.card = "SD_WRITING"] ELSE r

SdWriteBlock(r, address) == r

SdWriteBlockReturn(r, address) == FALSE

\* the status left as it is: the same block can be fetched again and again
SdGetReadDataKeepsStatus(r) == r

SdGetReadData(r) ==
  IF r.card = "SD_DATA_READY" THEN [r EXCEPT !.card = "SD_IDLE"] ELSE r

SdGetReadDataReturn(r) == r.card = "SD_DATA_READY"

\* what the loop of SdGetReadData stores at pu8Destination_
SdGetReadDataCopy(r) ==
  IF r.card = "SD_DATA_READY"
  THEN [i \in 0 .. (BlockBytes - 1) |-> r.buf[i]]
  ELSE << >>

(***************************************************************************)
(* The command primitive.                                                  *)
(***************************************************************************)
Fail(r, code, state) == [r EXCEPT !.err = code, !.sm = state]

SdCommand(r, cmd, ok) ==
  LET a == StartTimer(SspDeAssertCS([r EXCEPT !.next = cmd]))
      b == SspReadByte(a, "ready", ok)
  IN  IF b.tok # 0
      THEN SspAssertCS([b EXCEPT !.sm = "SdCardWaitReady"])
      ELSE Fail(b, "SD_ERROR_NO_TOKEN", "SdError")


(***************************************************************************)
(* State functions.  inp is what the tick reads from outside: inp.det, the *)
(* card-detect pin; inp.free, whether the bus is free when it is asked     *)
(* for; inp.ok, whether the bus layer accepts the transfer submitted.      *)
(***************************************************************************)
ClearCardTypeBits(r) == [r EXCEPT !.flags = @ \ {"SD1", "SD2", "HC"}]

\* the type bits of the card before kept when the bus is granted
SdIdleNoCardKeepsTypeBits(r, inp) ==
  LET a == SdIsCardInserted(r, inp.det)
  IN  IF ~inp.det THEN a
      ELSE LET b == SspRequest(a, inp.free)
           IN  IF b.ssp = "NULL"
               THEN [StartTimer(b) EXCEPT !.wret = "SdIdleNoCard", !.sm = "SdCardWaitSSP"]
               ELSE LET c == FlushSdRxBuffer(b)
                        d == SspReadData([c EXCEPT !.cyc = NewCycle], "wake", inp.ok)
                    IN  IF d.tok # 0
                        THEN SspAssertCS([d EXCEPT !.sm = "SdCardDummies"])
                        ELSE Fail(d, "SD_ERROR_NO_TOKEN", "SdError")

SdIdleNoCard(r, inp) ==
  LET a == SdIsCardInserted(r, inp.det)
  IN  IF ~inp.det THEN a
      ELSE LET b == SspRequest(a, inp.free)
           IN  IF b.ssp = "NULL"
               THEN [StartTimer(b) EXCEPT !.wret = "SdIdleNoCard", !.sm = "SdCardWaitSSP"]
               ELSE LET c == FlushSdRxBuffer(ClearCardTypeBits(b))
                        d == SspReadData([c EXCEPT !.cyc = NewCycle], "wake", inp.ok)
                    IN  IF d.tok # 0
                        THEN SspAssertCS([d EXCEPT !.sm = "SdCardDummies"])
                        ELSE Fail(d, "SD_ERROR_NO_TOKEN", "SdError")

SdCardDummies(r, inp) ==
  IF QueryComplete(r)
  THEN [SdCommand(Adv(r, SD_WAKEUP_BYTES), "CMD0", inp.ok) EXCEPT !.wret = "SdCardResponseCMD0"]
  ELSE r

SdCardResponseCMD0(r, inp) ==
  Adv(IF Peek(r) = SD_STATUS_IDLE
      THEN [SdCommand(r, "CMD8", inp.ok) EXCEPT !.wret = "SdCardResponseCMD8"]
      ELSE Fail(r, "SD_ERROR_BAD_RESPONSE", "SdError"),
      1)

\* a response other than idle handled as the other response states handle it
SdCardResponseCMD8RejectsOther(r, inp) ==
  Adv(IF Peek(r) = SD_STATUS_IDLE
      THEN LET a == SspReadData([r EXCEPT !.flags = @ \cup {"SD2"}, !.cyc.cmd8 = "idle"],
                                "echo", inp.ok)
           IN  IF a.tok # 0
               THEN [a EXCEPT !.sm = "SdCardReadCMD8"]
               ELSE Fail(a, "SD_ERROR_NO_TOKEN", "SdError")
      ELSE Fail([r EXCEPT !.cyc.cmd8 = "other"], "SD_ERROR_BAD_RESPONSE", "SdError"),
      1)

SdCardResponseCMD8(r, inp) ==
  Adv(IF Peek(r) = SD_STATUS_IDLE
      THEN LET a == SspReadData([r EXCEPT !.flags = @ \cup {"SD2"}, !.cyc.cmd8 = "idle"],
                                "echo", inp.ok)
           IN  IF a.tok # 0
               THEN [a EXCEPT !.sm = "SdCardReadCMD8"]
               ELSE Fail(a, "SD_ERROR_NO_TOKEN", "SdError")
      ELSE [SdCommand([r EXCEPT !.cyc.cmd8 = "other"], "CMD55", inp.ok)
              EXCEPT !.wret = "SdCardACMD41"],
      1)

SdCardReadCMD8(r, inp) ==
  LET a == IF QueryComplete(r)
           THEN LET b == Adv(r, 2)
                IN  IF Peek(b) = SD_VHS_VALUE
                    THEN LET c == Adv(b, 1)
                         IN  Adv(IF Peek(c) = SD_CHECK_PATTERN
                                 THEN [SdCommand(c, "CMD55", inp.ok) EXCEPT !.wret = "SdCardACMD41"]
                                 ELSE c,
                                 1)
                    ELSE Fail(b, "SD_ERROR_CARD_VOLTAGE", "SdError")
           ELSE r
  IN  CheckTimeout(a, SD_SPI_WAIT_TIME_MS)

SdCardACMD41(r, inp) ==
  Adv(IF Peek(r) = SD_STATUS_IDLE
      THEN LET a == IF "SD2" \in r.flags
                    THEN [r EXCEPT !.acmd41 = BIT6]     \* |= BIT6 on a byte that is 0 or BIT6
                    ELSE r
           IN  [SdCommand(a, "ACMD41", inp.ok) EXCEPT !.wret = "SdCardResponseACMD41"]
      ELSE Fail(r, "SD_ERROR_BAD_RESPONSE", "SdError"),
      1)

\* the counts of the poll loop are dropped when the loop is left
PollsDone(r) == [r EXCEPT !.cyc.n55 = 0, !.cyc.n41 = 0, !.cyc.notReady = 0]

\* a bound on the loop: the second answer that is not ready ends the cycle
SdCardResponseACMD41GivesUp(r, inp) ==
  Adv(IF Peek(r) = SD_STATUS_READY
      THEN IF "SD2" \in r.flags
           THEN [SdCommand(PollsDone(r), "CMD58", inp.ok) EXCEPT !.wret = "SdCardResponseCMD58"]
           ELSE [SdCommand([PollsDone(r) EXCEPT !.flags = @ \cup {"SD1"}], "CMD16", inp.ok)
                   EXCEPT !.wret = "SdCardResponseCMD16"]
      ELSE IF r.cyc.notReady >= 1
           THEN Fail([r EXCEPT !.cyc.notReady = @ + 1], "SD_ERROR_TIMEOUT", "SdError")
           ELSE [SdCommand([r EXCEPT !.cyc.notReady = @ + 1], "CMD55", inp.ok)
                   EXCEPT !.wret = "SdCardACMD41"],
      1)

SdCardResponseACMD41(r, inp) ==
  Adv(IF Peek(r) = SD_STATUS_READY
      THEN IF "SD2" \in r.flags
           THEN [SdCommand(PollsDone(r), "CMD58", inp.ok) EXCEPT !.wret = "SdCardResponseCMD58"]
           ELSE [SdCommand([PollsDone(r) EXCEPT !.flags = @ \cup {"SD1"}], "CMD16", inp.ok)
                   EXCEPT !.wret = "SdCardResponseCMD16"]
      ELSE [SdCommand([r EXCEPT !.cyc.notReady = @ + 1], "CMD55", inp.ok)
              EXCEPT !.wret = "SdCardACMD41"],
      1)

SdCardResponseCMD58(r, inp) ==
  Adv(IF Peek(r) = SD_STATUS_READY
      THEN LET a == SspReadData(r, "ocr", inp.ok)
           IN  IF a.tok # 0
               THEN [a EXCEPT !.sm = "SdCardReadCMD58"]
               ELSE Fail(a, "SD_ERROR_NO_TOKEN", "SdError")
      ELSE Fail(r, "SD_ERROR_BAD_RESPONSE", "SdError"),
      1)

\* the success branch shared by SdCardResponseCMD16 and SdCardReadCMD58
CardIsReady(r) ==
  [SspRelease(SspDeAssertCS(r)) EXCEPT !.card = "SD_IDLE", !.sm = "SdCardReadyIdle"]

SdCardResponseCMD16(r, inp) ==
  Adv(IF Peek(r) = SD_STATUS_READY
      THEN CardIsReady([r EXCEPT !.cyc.cmd16 = IF @ = "issued" THEN "ready" ELSE @])
      ELSE Fail(r, "SD_ERROR_BAD_RESPONSE", "SdError"),
      1)

\* x & _SD_OCR_CCS_BIT
HasCcsBit(x) == (x \div SD_OCR_CCS_BIT) % 2 = 1

\* x & BIT7
HasBit7(x) == x >= BIT7

\* the block length left at the card's default when the capacity bit is clear
SdCardReadCMD58WithoutCmd16(r, inp) ==
  LET a == IF QueryComplete(r)
           THEN LET b == [r EXCEPT !.flags = @ \ {"HC"}]
                IN  Adv(IF HasCcsBit(Peek(b))
                        THEN CardIsReady([b EXCEPT !.flags = @ \cup {"HC"}])
                        ELSE CardIsReady(b),
                        4)
           ELSE r
  IN  CheckTimeout(a, SD_SPI_WAIT_TIME_MS)

SdCardReadCMD58(r, inp) ==
  LET a == IF QueryComplete(r)
           THEN LET b == [r EXCEPT !.flags = @ \ {"HC"}]
                IN  Adv(IF HasCcsBit(Peek(b))
                        THEN CardIsReady([b EXCEPT !.flags = @ \cup {"HC"}])
                        ELSE [SdCommand(b, "CMD16", inp.ok) EXCEPT !.wret = "SdCardResponseCMD16"],
                        4)
           ELSE r
  IN  CheckTimeout(a, SD_SPI_WAIT_TIME_MS)

\* the test the other way round: the frame goes out on a byte other than 0xFF
SdCardWaitReadyOnOtherByte(r, inp) ==
  LET a == IF QueryComplete(r)
           THEN IF Peek(r) = SSP_DUMMY_BYTE
                THEN LET b == SspReadByte(r, "ready", inp.ok)
                     IN  Adv(IF b.tok = 0 THEN Fail(b, "SD_ERROR_NO_TOKEN", "SdError") ELSE b, 1)
                ELSE [StartTimer(Adv(SspWriteData(r, r.next, inp.ok), SD_CMD_SIZE))
                        EXCEPT !.sm = "SdCardWaitCommand"]
           ELSE r
  IN  CheckTimeout(a, SD_SPI_WAIT_TIME_MS)

SdCardWaitReady(r, inp) ==
  LET a == IF QueryComplete(r)
           THEN IF Peek(r) # SSP_DUMMY_BYTE
                THEN LET b == SspReadByte(r, "ready", inp.ok)
                     IN  Adv(IF b.tok = 0 THEN Fail(b, "SD_ERROR_NO_TOKEN", "SdError") ELSE b, 1)
                ELSE [StartTimer(Adv(SspWriteData(r, r.next, inp.ok), SD_CMD_SIZE))
                        EXCEPT !.sm = "SdCardWaitCommand"]
           ELSE r
  IN  CheckTimeout(a, SD_SPI_WAIT_TIME_MS)

\* the counter left where the polls have brought it when a response is taken
SdCardWaitCommandLeavesCounter(r, inp) ==
  LET a == IF QueryComplete(r)
           THEN IF HasBit7(Peek(r)) /\ r.retries # 0
                THEN LET b == SspReadByte([r EXCEPT !.retries = @ - 1, !.cyc.extra = @ + 1],
                                          "resp", inp.ok)
                     IN  Adv(IF b.tok = 0 THEN Fail(b, "SD_ERROR_NO_TOKEN", "SdError") ELSE b, 1)
                ELSE [r EXCEPT !.sm = r.wret]
           ELSE r
  IN  IF IsTimeUp(a, SD_WAIT_TIME)
      THEN [a EXCEPT !.retries = SD_CMD_RETRIES, !.err = "SD_ERROR_TIMEOUT", !.sm = "SdError"]
      ELSE a

\* the period watched only while the response is still awaited
SdCardWaitCommandTimeUpWhilePending(r, inp) ==
  IF QueryComplete(r)
  THEN IF HasBit7(Peek(r)) /\ r.retries # 0
       THEN LET b == SspReadByte([r EXCEPT !.retries = @ - 1, !.cyc.extra = @ + 1],
                                 "resp", inp.ok)
            IN  Adv(IF b.tok = 0 THEN Fail(b, "SD_ERROR_NO_TOKEN", "SdError") ELSE b, 1)
       ELSE [r EXCEPT !.retries = SD_CMD_RETRIES, !.sm = r.wret]
  ELSE IF IsTimeUp(r, SD_WAIT_TIME)
       THEN [r EXCEPT !.retries = SD_CMD_RETRIES, !.err = "SD_ERROR_TIMEOUT", !.sm = "SdError"]
       ELSE r

SdCardWaitCommand(r, inp) ==
  LET a == IF QueryComplete(r)
           THEN IF HasBit7(Peek(r)) /\ r.retries # 0
                THEN LET b == SspReadByte([r EXCEPT !.retries = @ - 1, !.cyc.extra = @ + 1],
                                          "resp", inp.ok)
                     IN  Adv(IF b.tok = 0 THEN Fail(b, "SD_ERROR_NO_TOKEN", "SdError") ELSE b, 1)
                ELSE [r EXCEPT !.retries = SD_CMD_RETRIES, !.sm = r.wret]
           ELSE r
  IN  IF IsTimeUp(a, SD_WAIT_TIME)
      THEN [a EXCEPT !.retries = SD_CMD_RETRIES, !.err = "SD_ERROR_TIMEOUT", !.sm = "SdError"]
      ELSE a

\* no settling time: the state to resume is entered on the next tick
SdCardWaitSSPAtOnce(r, inp) == [r EXCEPT !.sm = r.wret]

SdCardWaitSSP(r, inp) ==
  IF IsTimeUp(r, SD_SPI_WAIT_TIME_MS) THEN [r EXCEPT !.sm = r.wret] ELSE r

SdCardReadyIdle(r, inp) ==
  LET a == SdIsCardInserted(r, inp.det)
      b == IF ~inp.det
           THEN [StartTimer(ClearCardTypeBits(a))
                   EXCEPT !.wret = "SdIdleNoCard", !.sm = "SdCardWaitSSP"]
           ELSE a
  IN  IF b.card \in {"SD_WRITING", "SD_READING"}
      THEN LET c == SspRequest(b, inp.free)
           IN  IF c.ssp = "NULL"
               THEN [StartTimer(c) EXCEPT !.wret = "SdCardReadyIdle", !.sm = "SdCardWaitSSP"]
               ELSE IF c.card = "SD_WRITING"
                    THEN [c EXCEPT !.sm = "SdCardReadyIdle", !.card = "SD_IDLE"]
                    ELSE [SdCommand([c EXCEPT !.cmd17 = AddressBytes(c.addr)], "CMD17", inp.ok)
                            EXCEPT !.wret = "SdCardResponseCMD17"]
      ELSE b

\* a wrong response handled as the detection states handle it
SdCardResponseCMD17ToSdError(r, inp) ==
  Adv(IF Peek(r) = SD_STATUS_READY
      THEN [StartTimer(SspReadByte(r, "token", inp.ok)) EXCEPT !.sm = "SdCardWaitStartToken"]
      ELSE Fail(r, "SD_ERROR_BAD_RESPONSE", "SdError"),
      1)

SdCardResponseCMD17(r, inp) ==
  Adv(IF Peek(r) = SD_STATUS_READY
      THEN [StartTimer(SspReadByte(r, "token", inp.ok)) EXCEPT !.sm = "SdCardWaitStartToken"]
      ELSE Fail(r, "SD_ERROR_BAD_RESPONSE", "SdFailedDataTransfer"),
      1)

\* the start token awaited with no limit on the time
SdCardWaitStartTokenForEver(r, inp) ==
  IF QueryComplete(r)
  THEN IF Peek(r) = TOKEN_START_BLOCK
       THEN [SspReadData([r EXCEPT !.wr = 0, !.rd = 0, !.cyc.lead = 0], "block", inp.ok)
               EXCEPT !.sm = "SdCardDataTransfer"]
       ELSE Adv(SspReadByte(r, "token", inp.ok), 1)
  ELSE r

SdCardWaitStartToken(r, inp) ==
  LET a == IF QueryComplete(r)
           THEN IF Peek(r) = TOKEN_START_BLOCK
                THEN [SspReadData([r EXCEPT !.wr = 0, !.rd = 0, !.cyc.lead = 0], "block", inp.ok)
                        EXCEPT !.sm = "SdCardDataTransfer"]
                ELSE Adv(SspReadByte(r, "token", inp.ok), 1)
           ELSE r
  IN  IF IsTimeUp(a, SD_READ_TOKEN_MS)
      THEN Fail(a, "SD_ERROR_TIMEOUT", "SdFailedDataTransfer")
      ELSE a

\* the bus kept when the block has arrived
SdCardDataTransferKeepsBus(r, inp) ==
  LET a == IF QueryComplete(r)
           THEN [SspDeAssertCS([r EXCEPT !.card = "SD_DATA_READY"])
                   EXCEPT !.wr = 0, !.rd = 0, !.cyc.lead = 0, !.sm = "SdCardReadyIdle"]
           ELSE r
  IN  IF IsTimeUp(a, SD_SECTOR_READ_TIMEOUT_MS)
      THEN Fail(a, "SD_ERROR_TIMEOUT", "SdError")
      ELSE a

SdCardDataTransfer(r, inp) ==
  LET a == IF QueryComplete(r)
           THEN [SspRelease(SspDeAssertCS([r EXCEPT !.card = "SD_DATA_READY"]))
                   EXCEPT !.wr = 0, !.rd = 0, !.cyc.lead = 0, !.sm = "SdCardReadyIdle"]
           ELSE r
  IN  IF IsTimeUp(a, SD_SECTOR_READ_TIMEOUT_MS)
      THEN Fail(a, "SD_ERROR_TIMEOUT", "SdError")
      ELSE a

SdFailedDataTransfer(r, inp) ==
  [StartTimer(FlushSdRxBuffer(SspRelease(SspDeAssertCS(r))))
     EXCEPT !.card = "SD_CARD_ERROR", !.sm = "SdCardWaitSSP"]

\* the bus kept: the error path without its SspRelease
SdErrorKeepsBus(r, inp) ==
  [StartTimer(FlushSdRxBuffer(SspDeAssertCS(r)))
     EXCEPT !.card = "SD_NO_CARD", !.wret = "SdIdleNoCard", !.sm = "SdCardWaitSSP"]

SdError(r, inp) ==
  [StartTimer(FlushSdRxBuffer(SspRelease(SspDeAssertCS(r))))
     EXCEPT !.card = "SD_NO_CARD", !.wret = "SdIdleNoCard", !.sm = "SdCardWaitSSP"]


(***************************************************************************)
(* The card and the bus layer finishing a transfer.                        *)
(***************************************************************************)
Repeat(b, n) == [i \in 1 .. n |-> b]

EventsLeft == sspGrants + faults < MaxEvents

\* The R1 response a working card gives to a command.
GoodR1(cmd) ==
  CASE cmd = "CMD0"  -> {SD_STATUS_IDLE}
    [] cmd = "CMD8"  -> {SD_STATUS_IDLE, 5}      \* 5: illegal command, a version 1 card
    [] cmd = "CMD55" -> {SD_STATUS_IDLE}
    [] cmd = "CMD17" -> {SD_STATUS_READY, 64}    \* 64: parameter error, no such sector
    [] OTHER         -> {SD_STATUS_READY}

AnyR1 == {SD_STATUS_READY, SD_STATUS_IDLE, SSP_DUMMY_BYTE}

\* A card may answer up to eight byte times after the frame, so that the byte
\* read with the frame is still 0xFF.  Followed as a regular answer for CMD16
\* only, which keeps the number of states small; for the other commands a late
\* answer is one of the wrong answers.
LateAnswer(cmd) == IF cmd = "CMD16" THEN {SSP_DUMMY_BYTE} ELSE {}

\* The byte sequences a working card puts on the bus for a transfer.  A
\* response that is late is counted once, with the frame: a card that has not
\* answered in the frame answers the polls that follow or stays silent.  A
\* card that is fetching the sector sends 0xFF until the start token.
Nominal(e) ==
  CASE e.what = "ready" -> { << SSP_DUMMY_BYTE >> }
    [] e.what = "cmd"   -> { Repeat(SSP_DUMMY_BYTE, SD_CMD_SIZE - 1) \o << b >> :
                               b \in GoodR1(e.cmd) \cup LateAnswer(e.cmd) }
    [] e.what = "resp"  -> { << b >> : b \in GoodR1(e.cmd) \cup {SSP_DUMMY_BYTE} }
    [] e.what = "token" -> { << TOKEN_START_BLOCK >>, << SSP_DUMMY_BYTE >> }
    [] e.what = "wake"  -> { Repeat(SSP_DUMMY_BYTE, SD_WAKEUP_BYTES) }
    [] e.what = "echo"  -> { << 0, 0, SD_VHS_VALUE, SD_CHECK_PATTERN >> }
    [] e.what = "ocr"   -> { << o, 255, 128, 0 >> : o \in {128 + SD_OCR_CCS_BIT, 128} }
    [] e.what = "block" -> { Repeat(d, BlockBytes) \o Repeat(0, CrcBytes) : d \in {17, 34} }

\* ... and the ones of a card that is busy, absent or broken.
Faulty(e) ==
  CASE e.what = "ready" -> { << SD_STATUS_READY >> }
    [] e.what = "cmd"   -> { Repeat(SSP_DUMMY_BYTE, SD_CMD_SIZE - 1) \o << b >> :
                               b \in AnyR1 \ (GoodR1(e.cmd) \cup LateAnswer(e.cmd)) }
    [] e.what = "resp"  -> { << b >> : b \in AnyR1 \ GoodR1(e.cmd) }
    [] e.what = "token" -> { << 1 >> }            \* 1: a data error token
    [] e.what = "echo"  -> { << 0, 0, v, p >> : v \in {SD_VHS_VALUE, 0},
                                               p \in {SD_CHECK_PATTERN, 0} }
                             \ { << 0, 0, SD_VHS_VALUE, SD_CHECK_PATTERN >> }
    [] OTHER            -> {}

\* A card that has not finished initialising answers ACMD41 idle; it does so
\* up to MaxBusy times in a detection cycle.
Initialising(r, e) ==
  IF e.cmd = "ACMD41" /\ r.cyc.notReady < MaxBusy
  THEN CASE e.what = "cmd"  -> { Repeat(SSP_DUMMY_BYTE, SD_CMD_SIZE - 1) \o << SD_STATUS_IDLE >> }
         [] e.what = "resp" -> { << SD_STATUS_IDLE >> }
         [] OTHER           -> {}
  ELSE {}

\* The bus layer stores the received bytes at *pu8RxNextByte, wrapping.
Store(buf, wr, bytes) ==
  [i \in Index |->
     LET hit == { k \in 1 .. Len(bytes) : (wr + k - 1) % SDCARD_RX_BUFFER_SIZE = i }
     IN  IF hit = {} THEN buf[i]
         ELSE bytes[CHOOSE k \in hit : \A j \in hit : j <= k]]

Deliver(r, bytes) ==
  LET head == Head(r.q)
  IN  [r EXCEPT !.q = Tail(@),
                !.faults = IF bytes \in Nominal(head) \cup Initialising(r, head)
                           THEN @ ELSE @ + 1,
                !.buf = Store(r.buf, r.wr, bytes),
                !.wr = (@ + Len(bytes)) % SDCARD_RX_BUFFER_SIZE,
                !.cyc.lead = @ - Len(bytes),
                !.done = IF head.cur THEN TRUE ELSE @,
                !.cyc.vhs = IF head.what = "echo"
                            THEN (IF bytes[3] = SD_VHS_VALUE THEN "match" ELSE "differ")
                            ELSE @,
                !.cyc.pat = IF head.what = "echo"
                            THEN (IF bytes[4] = SD_CHECK_PATTERN THEN "match" ELSE "differ")
                            ELSE @,
                !.cyc.ccs = IF head.what = "ocr"
                            THEN (IF HasCcsBit(bytes[1]) THEN "set" ELSE "clear")
                            ELSE @]

(***************************************************************************)
(* Initial state: after SdCardInitialize().                                *)
(***************************************************************************)
\* Sector addresses the client asks for: 100 and 2^23 + 1.
Sectors == { << 0, 100 >>, << 128, 1 >> }

InitDriver ==
  /\ G_SdCardStateMachine = "SdIdleNoCard"
  /\ SD_u32Flags = {}
  /\ SD_CardState = "SD_NO_CARD"
  /\ SD_u8ErrorCode = "none"
  /\ SD_WaitReturnState = "NULL"
  /\ SD_NextCommand = "NULL"
  /\ SD_Ssp = "NULL"
  /\ SD_au8RxBuffer = [i \in Index |-> 0]
  /\ SD_pu8RxBufferNextByte = 0
  /\ SD_pu8RxBufferParser = 0
  /\ elapsed = TimeCap
  /\ SD_u32CurrentMsgToken = 0
  /\ SD_u32Address = << 0, 0 >>
  /\ SD_au8CMD17 = << 0, 0, 0, 0 >>
  /\ SD_au8ACMD41 = 0
  /\ u8Retries = SD_CMD_RETRIES
  /\ sspOwner = "none"
  /\ sspGrants = 0
  /\ faults = 0
  /\ sspCS = FALSE
  /\ sspQueue = << >>
  /\ msgComplete = FALSE
  /\ ret = NoCall
  /\ cyc = NewCycle
  /\ unowned = {}
  /\ refused = {}

NotRun == 0 - 1   \* advR before the cursor-only check has run

Init == InitDriver /\ advC = 0 /\ advN = 0 /\ advR = NotRun

(***************************************************************************)
(* Actions.                                                                *)
(***************************************************************************)
\* (the record is worked out once and then stored field by field)
Run(r) == \E done \in {r} : Commit(done) /\ ret' = NoCall /\ UNCHANGED advVars

\* fn: the function called; val: the value it returned; data: the bytes it
\* stored at the destination; pin: what the card-detect pin read, if it was read
Returned(fn, val, data) == [NoCall EXCEPT !.fn = fn, !.val = val, !.data = data]

\* What a tick can read from outside.  Only SdIdleNoCard and SdCardReadyIdle
\* read the pin and ask for the bus.  Grants of the bus, refusals and wrong
\* answers happen at most MaxEvents times in all; after that the bus stays
\* taken by another task.
Oks == IF EventsLeft THEN BOOLEAN ELSE {TRUE}

Inputs == { [ok |-> o, det |-> TRUE, free |-> TRUE] : o \in Oks }

PinInputs ==
  { [ok |-> o, det |-> d, free |-> f] :
      o \in Oks, d \in BOOLEAN,
      f \in (IF EventsLeft THEN BOOLEAN ELSE {FALSE}) }

\* SystemSleep() ends each pass of the super loop when the 1 ms period is over,
\* so G_u32SystemTime1ms has moved on by one when the next pass begins.
Sleep(r) == [r EXCEPT !.el = IF @ < TimeCap THEN @ + 1 ELSE @]

\* One pass of the super loop: the state function the pointer holds runs once.
TickSdIdleNoCard ==
  G_SdCardStateMachine = "SdIdleNoCard" /\ \E inp \in PinInputs : Run(SdIdleNoCard(Sleep(Cur), inp))
TickSdCardDummies ==
  G_SdCardStateMachine = "SdCardDummies" /\ \E inp \in Inputs : Run(SdCardDummies(Sleep(Cur), inp))
TickSdCardResponseCMD0 ==
  G_SdCardStateMachine = "SdCardResponseCMD0" /\ \E inp \in Inputs : Run(SdCardResponseCMD0(Sleep(Cur), inp))
TickSdCardResponseCMD8 ==
  G_SdCardStateMachine = "SdCardResponseCMD8" /\ \E inp \in Inputs : Run(SdCardResponseCMD8(Sleep(Cur), inp))
TickSdCardReadCMD8 ==
  G_SdCardStateMachine = "SdCardReadCMD8" /\ \E inp \in Inputs : Run(SdCardReadCMD8(Sleep(Cur), inp))
TickSdCardACMD41 ==
  G_SdCardStateMachine = "SdCardACMD41" /\ \E inp \in Inputs : Run(SdCardACMD41(Sleep(Cur), inp))
TickSdCardResponseACMD41 ==
  G_SdCardStateMachine = "SdCardResponseACMD41" /\ \E inp \in Inputs : Run(SdCardResponseACMD41(Sleep(Cur), inp))
TickSdCardResponseCMD58 ==
  G_SdCardStateMachine = "SdCardResponseCMD58" /\ \E inp \in Inputs : Run(SdCardResponseCMD58(Sleep(Cur), inp))
TickSdCardResponseCMD16 ==
  G_SdCardStateMachine = "SdCardResponseCMD16" /\ \E inp \in Inputs : Run(SdCardResponseCMD16(Sleep(Cur), inp))
TickSdCardReadCMD58 ==
  G_SdCardStateMachine = "SdCardReadCMD58" /\ \E inp \in Inputs : Run(SdCardReadCMD58(Sleep(Cur), inp))
TickSdCardWaitReady ==
  G_SdCardStateMachine = "SdCardWaitReady" /\ \E inp \in Inputs : Run(SdCardWaitReady(Sleep(Cur), inp))
TickSdCardWaitCommand ==
  G_SdCardStateMachine = "SdCardWaitCommand" /\ \E inp \in Inputs : Run(SdCardWaitCommand(Sleep(Cur), inp))
TickSdCardWaitSSP ==
  G_SdCardStateMachine = "SdCardWaitSSP" /\ \E inp \in Inputs : Run(SdCardWaitSSP(Sleep(Cur), inp))
TickSdCardReadyIdle ==
  G_SdCardStateMachine = "SdCardReadyIdle" /\ \E inp \in PinInputs : Run(SdCardReadyIdle(Sleep(Cur), inp))
TickSdCardResponseCMD17 ==
  G_SdCardStateMachine = "SdCardResponseCMD17" /\ \E inp \in Inputs : Run(SdCardResponseCMD17(Sleep(Cur), inp))
TickSdCardWaitStartToken ==
  G_SdCardStateMachine = "SdCardWaitStartToken" /\ \E inp \in Inputs : Run(SdCardWaitStartToken(Sleep(Cur), inp))
TickSdCardDataTransfer ==
  G_SdCardStateMachine = "SdCardDataTransfer" /\ \E inp \in Inputs : Run(SdCardDataTransfer(Sleep(Cur), inp))
TickSdFailedDataTransfer ==
  G_SdCardStateMachine = "SdFailedDataTransfer" /\ \E inp \in Inputs : Run(SdFailedDataTransfer(Sleep(Cur), inp))
TickSdError ==
  G_SdCardStateMachine = "SdError" /\ \E inp \in Inputs : Run(SdError(Sleep(Cur), inp))

Tick ==
  \/ TickSdIdleNoCard \/ TickSdCardDummies \/ TickSdCardResponseCMD0
  \/ TickSdCardResponseCMD8 \/ TickSdCardReadCMD8 \/ TickSdCardACMD41
  \/ TickSdCardResponseACMD41 \/ TickSdCardResponseCMD58 \/ TickSdCardResponseCMD16
  \/ TickSdCardReadCMD58 \/ TickSdCardWaitReady \/ TickSdCardWaitCommand
  \/ TickSdCardWaitSSP \/ TickSdCardReadyIdle \/ TickSdCardResponseCMD17
  \/ TickSdCardWaitStartToken \/ TickSdCardDataTransfer \/ TickSdFailedDataTransfer
  \/ TickSdError

\* Client calls, between ticks.
CallSdReadBlockOf(sector) ==
  /\ Commit([SdReadBlock(Cur, sector)
               EXCEPT !.cyc.frame = IF SdReadBlockReturn(Cur, sector) THEN NewCycle.frame ELSE @,
                      !.cyc.sector = IF SdReadBlockReturn(Cur, sector) THEN sector ELSE @,
                      !.cyc.hc = IF SdReadBlockReturn(Cur, sector) THEN "HC" \in SD_u32Flags ELSE @])
  /\ ret' = Returned("SdReadBlock", SdReadBlockReturn(Cur, sector), << >>)
  /\ UNCHANGED advVars

CallSdReadBlock == \E sector \in Sectors : CallSdReadBlockOf(sector)

CallSdWriteBlock ==
  \E address \in Sectors :
    /\ Commit(SdWriteBlock(Cur, address))
    /\ ret' = Returned("SdWriteBlock", SdWriteBlockReturn(Cur, address), << >>)
    /\ UNCHANGED advVars

CallSdGetReadData ==
  /\ Commit(SdGetReadData(Cur))
  /\ ret' = Returned("SdGetReadData", SdGetReadDataReturn(Cur), SdGetReadDataCopy(Cur))
  /\ UNCHANGED advVars

\* A poll by the client that finds the card absent counts against MaxEvents.
CallSdIsCardInserted ==
  \E det \in (IF EventsLeft THEN BOOLEAN ELSE {TRUE}) :
    /\ Commit([SdIsCardInserted(Cur, det) EXCEPT !.faults = IF det THEN @ ELSE @ + 1])
    /\ ret' = [Returned("SdIsCardInserted", SdIsCardInsertedReturn(Cur, det), << >>)
                 EXCEPT !.pin = IF det THEN "present" ELSE "absent"]
    /\ UNCHANGED advVars

\* The bus layer finishes the oldest queued transfer.
SspComplete ==
  /\ sspOwner = "sd"
  /\ sspQueue # << >>
  /\ \E bytes \in Nominal(Head(sspQueue)) \cup Initialising(Cur, Head(sspQueue))
                   \cup (IF EventsLeft THEN Faulty(Head(sspQueue)) ELSE {}) :
       Run(Deliver(Cur, bytes))

Next ==
  \/ Tick
  \/ CallSdReadBlock
  \/ CallSdWriteBlock
  \/ CallSdGetReadData
  \/ CallSdIsCardInserted
  \/ SspComplete

Spec == Init /\ [][Next]_vars

(***************************************************************************)
(* The cursor on its own: AdvanceSD_pu8RxBufferParser applied once to any  *)
(* cursor position and any amount up to MaxAdvance.                        *)
(***************************************************************************)
InitAdv == InitDriver /\ advC \in Index /\ advN \in 0 .. MaxAdvance /\ advR = NotRun

ApplyAdvance ==
  /\ advR = NotRun
  /\ advR' = AdvanceSD_pu8RxBufferParser(advC, advN)
  /\ UNCHANGED << driverVars, ret, cyc, unowned, refused, advC, advN >>

NextAdv == ApplyAdvance

SpecAdv == InitAdv /\ [][NextAdv]_vars

(***************************************************************************)
(* Properties.  ret'.fn = "F" holds of exactly the steps on which the      *)
(* facade function F is called and returns.                                *)
(***************************************************************************)

\* C1: SdReadBlock returns TRUE and sets the status to SD_READING exactly when
\* the status is SD_IDLE at the call; in every other status it returns FALSE
\* and leaves the status, SD_u32Address, the flags, the state pointer and all
\* else the driver holds as they were.
C1_ReadBlockAcceptedIffIdle ==
  [][ ret'.fn = "SdReadBlock" =>
        IF SD_CardState = "SD_IDLE"
        THEN ret'.val = TRUE /\ SD_CardState' = "SD_READING"
        ELSE ret'.val = FALSE /\ UNCHANGED driverVars ]_vars

\* a read has been accepted
C1_Witness ==
  /\ ret.fn = "SdReadBlock"
  /\ ret.val = TRUE
  /\ SD_CardState = "SD_READING"

\* A number below 2^48 as three 16-bit digits, high digit first: the exact
\* product sector * 512, and the number four big-endian bytes stand for.
ExactByteAddress(s) ==
  LET lo == s[2] * SectorBytes
      mid == s[1] * SectorBytes + (lo \div Half)
  IN  << mid \div Half, mid % Half, lo % Half >>

BigEndianValue(b) == << 0, b[1] * 256 + b[2], b[3] * 256 + b[4] >>

\* C2 as claimed: for every sector address SdReadBlock accepts, the argument
\* bytes of the CMD17 frame sent for it are, big-endian, sector * 512 when
\* _SD_CARD_HC is clear and the sector address itself when it is set.
C2_Cmd17ArgumentIsExactProduct ==
  cyc.frame[1] = "CMD17" =>
    BigEndianValue(cyc.frame[2]) =
      IF cyc.hc THEN << 0, cyc.sector[1], cyc.sector[2] >> ELSE ExactByteAddress(cyc.sector)

\* C2 as amended: the argument bytes are, big-endian, sector * 512 reduced
\* modulo 2^32 when _SD_CARD_HC is clear (the product itself for sectors
\* below 2^23), and the sector address itself when it is set.
C2_Cmd17ArgumentIsProductMod32 ==
  cyc.frame[1] = "CMD17" =>
    BigEndianValue(cyc.frame[2]) =
      IF cyc.hc THEN << 0, cyc.sector[1], cyc.sector[2] >>
      ELSE [ExactByteAddress(cyc.sector) EXCEPT ![1] = 0]

\* sector 100 on a card without _SD_CARD_HC: CMD17 has gone out with 51200
C2_Witness ==
  /\ cyc.frame = << "CMD17", << 0, 0, 200, 0 >> >>
  /\ cyc.sector = << 0, 100 >>
  /\ ~cyc.hc

\* C3: SdGetReadData stores the first BlockBytes bytes of SD_au8RxBuffer at
\* the destination, sets the status to SD_IDLE and returns TRUE exactly when
\* the status is SD_DATA_READY at the call; in every other status it returns
\* FALSE, stores nothing and leaves the status as it was.
C3_GetReadDataIffDataReady ==
  [][ ret'.fn = "SdGetReadData" =>
        IF SD_CardState = "SD_DATA_READY"
        THEN /\ ret'.val = TRUE
             /\ SD_CardState' = "SD_IDLE"
             /\ DOMAIN ret'.data = 0 .. (BlockBytes - 1)
             /\ \A i \in 0 .. (BlockBytes - 1) : ret'.data[i] = SD_au8RxBuffer[i]
        ELSE /\ ret'.val = FALSE
             /\ ret'.data = << >>
             /\ SD_CardState' = SD_CardState ]_vars

\* a block has been fetched
C3_Witness ==
  /\ ret.fn = "SdGetReadData"
  /\ ret.val = TRUE
  /\ SD_CardState = "SD_IDLE"
  /\ \E i \in DOMAIN ret.data : ret.data[i] # 0

\* C4: SdWriteBlock returns FALSE for every address and changes nothing the
\* driver holds, and the status is SD_WRITING in no reachable state.
C4_WriteBlockStub ==
  /\ [](SD_CardState # "SD_WRITING")
  /\ [][ ret'.fn = "SdWriteBlock" => ret'.val = FALSE /\ UNCHANGED driverVars ]_vars

\* SdWriteBlock has been called on a card that is ready and idle
C4_Witness ==
  /\ ret.fn = "SdWriteBlock"
  /\ ret.val = FALSE
  /\ SD_CardState = "SD_IDLE"
  /\ G_SdCardStateMachine = "SdCardReadyIdle"

\* What the detection cycle has seen of the card.
Cmd8Accepted ==
  cyc.cmd8 = "idle" /\ cyc.vhs = "match" /\ cyc.pat = "match"

TypeBits == SD_u32Flags \cap {"SD1", "SD2", "HC"}

\* C5 as claimed: the detection cycle ends in SdCardReadyIdle with status
\* SD_IDLE and _SD_CARD_HC set exactly when in that cycle the response to
\* CMD8 was idle, the echoed voltage and check-pattern bytes both matched
\* and the first OCR byte had the capacity bit set.  First conjunct: only
\* then; second conjunct: a cycle that has seen all of it ends that way on
\* the tick that parses the OCR bytes.
C5_HighCapacityIffCmd8AndCcs ==
  /\ [](G_SdCardStateMachine = "SdCardReadyIdle" /\ "HC" \in SD_u32Flags
          => Cmd8Accepted /\ cyc.ccs = "set")
  /\ [][ TickSdCardReadCMD58 /\ Cmd8Accepted /\ cyc.ccs = "set"
          => /\ G_SdCardStateMachine' = "SdCardReadyIdle"
             /\ SD_CardState' = "SD_IDLE"
             /\ "HC" \in SD_u32Flags' ]_vars

\* C6: whenever the driver is in SdCardReadyIdle with _SD_CARD_HC clear, CMD16
\* went out in the detection cycle and was answered ready, and the cycle was
\* (a) one whose CMD8 response was not idle, _SD_TYPE_SD1 being the one type
\* bit set, or (b) one whose CMD8 response was idle and whose OCR had the
\* capacity bit clear, _SD_TYPE_SD2 being the one type bit set.
C6_LowCapacityCycleSetBlockLength ==
  G_SdCardStateMachine = "SdCardReadyIdle" /\ "HC" \notin SD_u32Flags
    => /\ cyc.cmd16 = "ready"
       /\ \/ cyc.cmd8 = "other" /\ TypeBits = {"SD1"}
          \/ cyc.cmd8 = "idle" /\ cyc.ccs = "clear" /\ TypeBits = {"SD2"}

\* a card that took CMD8 and reported the capacity bit clear is ready
C6_Witness ==
  /\ G_SdCardStateMachine = "SdCardReadyIdle"
  /\ SD_CardState = "SD_IDLE"
  /\ TypeBits = {"SD2"}
  /\ Cmd8Accepted
  /\ cyc.ccs = "clear"
  /\ cyc.cmd16 = "ready"

\* The tick finds the period elapsed since the timer was started.
Expired(period) == IsTimeUp(Sleep(Cur), period)

ErrorPaths == {"SdError", "SdFailedDataTransfer"}

\* One tick of SdError, and one of SdFailedDataTransfer, sets the error status.
ErrorStatusOnNextTick ==
  /\ TickSdError => SD_CardState' = "SD_NO_CARD"
  /\ TickSdFailedDataTransfer => SD_CardState' = "SD_CARD_ERROR"

\* C7 as claimed: in each of the six wait states with a period, the first tick
\* that finds the period elapsed leaves for SdError or SdFailedDataTransfer,
\* whose tick sets the status SD_NO_CARD or SD_CARD_ERROR.
C7_ExpiredWaitTakesErrorPath ==
  [][ /\ TickSdCardWaitReady /\ Expired(SD_SPI_WAIT_TIME_MS)
          => G_SdCardStateMachine' \in ErrorPaths
      /\ TickSdCardWaitCommand /\ Expired(SD_WAIT_TIME)
          => G_SdCardStateMachine' \in ErrorPaths
      /\ TickSdCardReadCMD8 /\ Expired(SD_SPI_WAIT_TIME_MS)
          => G_SdCardStateMachine' \in ErrorPaths
      /\ TickSdCardReadCMD58 /\ Expired(SD_SPI_WAIT_TIME_MS)
          => G_SdCardStateMachine' \in ErrorPaths
      /\ TickSdCardWaitStartToken /\ Expired(SD_READ_TOKEN_MS)
          => G_SdCardStateMachine' \in ErrorPaths
      /\ TickSdCardDataTransfer /\ Expired(SD_SECTOR_READ_TIMEOUT_MS)
          => G_SdCardStateMachine' \in ErrorPaths
      /\ ErrorStatusOnNextTick ]_vars

\* C7 as amended: the first tick that finds the period elapsed leaves the
\* wait state.  It leaves for SdError (SdFailedDataTransfer from
\* SdCardWaitStartToken), whose tick sets the status SD_NO_CARD
\* (SD_CARD_ERROR), except when that same tick sees the awaited transfer
\* complete and starts the next exchange, which restarts the timer:
\* SdCardWaitReady then sends the command frame and goes to SdCardWaitCommand,
\* SdCardReadCMD8 dispatches CMD55 and SdCardReadCMD58 dispatches CMD16.
C7_ExpiredWaitIsLeft ==
  [][ /\ TickSdCardWaitReady /\ Expired(SD_SPI_WAIT_TIME_MS)
          => \/ G_SdCardStateMachine' = "SdError"
             \/ /\ QueryComplete(Cur)
                /\ G_SdCardStateMachine' = "SdCardWaitCommand"
                /\ elapsed' = 0
      /\ TickSdCardWaitCommand /\ Expired(SD_WAIT_TIME)
          => G_SdCardStateMachine' = "SdError"
      /\ TickSdCardReadCMD8 /\ Expired(SD_SPI_WAIT_TIME_MS)
          => \/ G_SdCardStateMachine' = "SdError"
             \/ /\ QueryComplete(Cur)
                /\ G_SdCardStateMachine' = "SdCardWaitReady"
                /\ SD_NextCommand' = "CMD55"
                /\ elapsed' = 0
      /\ TickSdCardReadCMD58 /\ Expired(SD_SPI_WAIT_TIME_MS)
          => \/ G_SdCardStateMachine' = "SdError"
             \/ /\ QueryComplete(Cur)
                /\ G_SdCardStateMachine' = "SdCardWaitReady"
                /\ SD_NextCommand' = "CMD16"
                /\ elapsed' = 0
      /\ TickSdCardWaitStartToken /\ Expired(SD_READ_TOKEN_MS)
          => G_SdCardStateMachine' = "SdFailedDataTransfer"
      /\ TickSdCardDataTransfer /\ Expired(SD_SECTOR_READ_TIMEOUT_MS)
          => G_SdCardStateMachine' = "SdError"
      /\ ErrorStatusOnNextTick ]_vars

\* the start-token wait has just run into its period
C7_Witness ==
  /\ G_SdCardStateMachine = "SdFailedDataTransfer"
  /\ SD_u8ErrorCode = "SD_ERROR_TIMEOUT"
  /\ elapsed >= SD_READ_TOKEN_MS

\* A tick of SdCardReadyIdle that reads the pin as "no card".
ReadyIdleFindsCardAbsent ==
  /\ G_SdCardStateMachine = "SdCardReadyIdle"
  /\ \E inp \in PinInputs : ~inp.det /\ Run(SdCardReadyIdle(Sleep(Cur), inp))

\* C9: a tick of SdCardReadyIdle that finds the card absent sets the status
\* SD_NO_CARD, clears the type bits and _SD_CARD_INSERTED, asks for no bus
\* (pending read or not) and goes to SdCardWaitSSP with SdIdleNoCard as the
\* state to return to; every tick of that wait either moves the timer on or
\* hands over to SdIdleNoCard.
C9_RemovalInReadyIdle ==
  [][ /\ ReadyIdleFindsCardAbsent
          => /\ SD_CardState' = "SD_NO_CARD"
             /\ SD_u32Flags' = {}
             /\ UNCHANGED << SD_Ssp, sspOwner, sspGrants, faults, sspQueue, sspCS,
                             SD_u32CurrentMsgToken >>
             /\ G_SdCardStateMachine' = "SdCardWaitSSP"
             /\ SD_WaitReturnState' = "SdIdleNoCard"
      /\ TickSdCardWaitSSP /\ SD_WaitReturnState = "SdIdleNoCard"
          => \/ G_SdCardStateMachine' = "SdIdleNoCard"
             \/ /\ G_SdCardStateMachine' = "SdCardWaitSSP"
                /\ SD_WaitReturnState' = "SdIdleNoCard"
                /\ elapsed' > elapsed ]_vars

\* the card was taken out while an accepted read was waiting for its turn
C9_Witness ==
  /\ G_SdCardStateMachine = "SdCardWaitSSP"
  /\ SD_WaitReturnState = "SdIdleNoCard"
  /\ SD_CardState = "SD_NO_CARD"
  /\ SD_u32Flags = {}
  /\ elapsed = 0
  /\ sspGrants = 1
  /\ cyc.sector = << 0, 100 >>
  /\ cyc.frame = NewCycle.frame

\* What C10 says of the path behind a CMD8 that found no taker: the tick that
\* sees ACMD41 answered ready on a card without _SD_TYPE_SD2 sets _SD_TYPE_SD1
\* and dispatches CMD16, the tick that sees CMD16 answered ready ends in
\* SdCardReadyIdle with SD_IDLE and _SD_CARD_HC clear, and a cycle whose CMD8
\* response was not idle is in SdCardReadyIdle only with _SD_TYPE_SD1 set,
\* _SD_CARD_HC clear and CMD16 answered ready.
LegacyPathSetsBlockLength ==
  /\ [][ /\ TickSdCardResponseACMD41 /\ Peek(Cur) = SD_STATUS_READY /\ "SD2" \notin SD_u32Flags
             => /\ "SD1" \in SD_u32Flags'
                /\ SD_NextCommand' = "CMD16"
                /\ SD_WaitReturnState' = "SdCardResponseCMD16"
                /\ G_SdCardStateMachine' \in {"SdCardWaitReady", "SdError"}
         /\ TickSdCardResponseCMD16 /\ Peek(Cur) = SD_STATUS_READY
             => /\ G_SdCardStateMachine' = "SdCardReadyIdle"
                /\ SD_CardState' = "SD_IDLE"
                /\ "HC" \notin SD_u32Flags' ]_vars
  /\ [](G_SdCardStateMachine = "SdCardReadyIdle" /\ cyc.cmd8 = "other"
          => TypeBits = {"SD1"} /\ cyc.cmd16 = "ready")

Cmd55Dispatched ==
  /\ SD_NextCommand' = "CMD55"
  /\ SD_WaitReturnState' = "SdCardACMD41"
  /\ G_SdCardStateMachine' \in {"SdCardWaitReady", "SdError"}

PollLoopIssuesOnePairPerAnswer ==
  /\ [][ TickSdCardResponseACMD41 /\ Peek(Cur) = SD_STATUS_READY /\ Cmd8Accepted
           => /\ cyc.n41 = cyc.notReady + 1
              /\ cyc.n55 = cyc.n41
              /\ SD_NextCommand' = "CMD58"
              /\ SD_WaitReturnState' = "SdCardResponseCMD58" ]_vars
  /\ [](Cmd8Accepted /\ cyc.ccs = "set" => cyc.cmd16 = "none")

\* C11 as claimed: a card that answers CMD8 idle with matching echo, answers
\* ACMD41 idle k-1 times and then ready, and reports the capacity bit set has
\* the CMD55+ACMD41 pair sent exactly k times, then CMD58 and never CMD16, and
\* the tick that parses its OCR ends the cycle in SdCardReadyIdle with SD_IDLE
\* and _SD_CARD_HC set.
C11_PollsThenHighCapacity ==
  /\ PollLoopIssuesOnePairPerAnswer
  /\ [][ TickSdCardReadCMD58 /\ QueryComplete(Cur) /\ Cmd8Accepted /\ cyc.ccs = "set"
           => /\ G_SdCardStateMachine' = "SdCardReadyIdle"
              /\ SD_CardState' = "SD_IDLE"
              /\ "HC" \in SD_u32Flags'
              /\ cyc.cmd16 = "none" ]_vars

\* the third CMD55+ACMD41 pair has gone out after two idle answers
C11_ThirdPollSent ==
  /\ Cmd8Accepted
  /\ cyc.n41 = 3
  /\ cyc.n55 = 3
  /\ cyc.notReady = 2
  /\ faults = 0


C12_PresentPolled ==
  /\ ret.fn = "SdIsCardInserted"
  /\ ret.pin = "present"
  /\ G_SdCardStateMachine = "SdIdleNoCard"
  /\ SD_u32Flags = {"INSERTED"}
  /\ sspGrants = 0


\* The calls C13 is about: chip select, the two reads and the write.
BusOperations ==
  {"SspAssertCS", "SspDeAssertCS", "SspReadByte", "SspReadData", "SspWriteData"}

\* C13 as claimed: the driver asserts and deasserts chip select and submits
\* reads and writes only while it holds the bus, that is between a request
\* that succeeded and the release that follows it.
C13_BusOperationsOnlyByOwner ==
  unowned \cap BusOperations = {}


\* C14: one tick of SdError, whatever the error code, leaves the status
\* SD_NO_CARD, the parser on SD_pu8RxBufferNextByte, the bus not held by the
\* driver and the driver in SdCardWaitSSP with SdIdleNoCard to return to; each
\* tick of that wait moves the time on until the period is over, and the tick
\* that finds it over hands over to SdIdleNoCard.
C14_GeneralErrorRecovers ==
  [][ /\ TickSdError
          => /\ SD_CardState' = "SD_NO_CARD"
             /\ SD_pu8RxBufferParser' = SD_pu8RxBufferNextByte'
             /\ sspOwner' # "sd"
             /\ sspQueue' = << >>
             /\ G_SdCardStateMachine' = "SdCardWaitSSP"
             /\ SD_WaitReturnState' = "SdIdleNoCard"
             /\ elapsed' = 0
      /\ TickSdCardWaitSSP /\ SD_WaitReturnState = "SdIdleNoCard"
          => IF Expired(SD_SPI_WAIT_TIME_MS)
             THEN G_SdCardStateMachine' = "SdIdleNoCard"
             ELSE G_SdCardStateMachine' = "SdCardWaitSSP" /\ elapsed' = elapsed + 1 ]_vars

\* SdError has just run for a card that gave a wrong response, with the bus held
C14_Witness ==
  /\ G_SdCardStateMachine = "SdCardWaitSSP"
  /\ SD_WaitReturnState = "SdIdleNoCard"
  /\ SD_u8ErrorCode = "SD_ERROR_BAD_RESPONSE"
  /\ SD_CardState = "SD_NO_CARD"
  /\ sspOwner = "none"
  /\ sspGrants = 1
  /\ elapsed = 0
  /\ SD_pu8RxBufferParser = SD_pu8RxBufferNextByte
  /\ SD_pu8RxBufferParser # 0


\* What one tick of SdFailedDataTransfer leaves behind.
FailedTransferCleansUp ==
  [][ TickSdFailedDataTransfer
        => /\ SD_CardState' = "SD_CARD_ERROR"
           /\ SD_pu8RxBufferParser' = SD_pu8RxBufferNextByte'
           /\ sspOwner' # "sd"
           /\ SD_u32Flags' = SD_u32Flags
           /\ G_SdCardStateMachine' = "SdCardWaitSSP"
           /\ elapsed' = 0 ]_vars

\* C15 as claimed: after a failed data transfer the driver releases the bus,
\* flushes the buffer, sets SD_CARD_ERROR with the flags as they were and
\* waits in SdCardWaitSSP, which it leaves for SdCardReadyIdle and for no
\* other state.
C15_FailedTransferResumesReadyIdle ==
  /\ FailedTransferCleansUp
  /\ [][ TickSdCardWaitSSP /\ SD_CardState = "SD_CARD_ERROR"
           => G_SdCardStateMachine' \in {"SdCardWaitSSP", "SdCardReadyIdle"} ]_vars

\* Where the code goes instead: back to the state saved for the response to
\* CMD17, and from there round and round without the bus.
FailedTransferResumesResponseCMD17 ==
  [][ /\ TickSdCardWaitSSP /\ SD_CardState = "SD_CARD_ERROR"
          => G_SdCardStateMachine' \in {"SdCardWaitSSP", "SdCardResponseCMD17"}
      /\ SD_CardState = "SD_CARD_ERROR" /\ ret'.fn = "none"
          => /\ SD_CardState' = "SD_CARD_ERROR"
             /\ G_SdCardStateMachine' \in {"SdCardWaitSSP", "SdCardResponseCMD17",
                                           "SdCardWaitStartToken", "SdFailedDataTransfer"}
             /\ sspOwner' = "none" ]_vars


\* The step submits a transfer of the given kind, or is refused the token.
Submitted(what) ==
  \/ /\ Len(sspQueue') = Len(sspQueue) + 1
     /\ sspQueue'[Len(sspQueue')].what = what
     /\ SD_u32CurrentMsgToken' # 0
  \/ /\ sspQueue' = sspQueue
     /\ SD_u32CurrentMsgToken' = 0

\* The tick of SdCardWaitReady reads one more byte and stays (or fails).
WaitReadyPollsAgain ==
  /\ Submitted("ready")
  /\ G_SdCardStateMachine' \in {"SdCardWaitReady", "SdError"}
  /\ cyc'.frame = cyc.frame

\* The tick of SdCardWaitReady sends the frame of SD_NextCommand.
WaitReadySendsFrame ==
  /\ Submitted("cmd")
  /\ G_SdCardStateMachine' = "SdCardWaitCommand"
  /\ SD_u32CurrentMsgToken' # 0 => cyc'.frame[1] = SD_NextCommand

\* C16 as claimed: SdCardWaitReady reads another byte while the byte just
\* read is 0xFF, and sends the command frame, going to SdCardWaitCommand, only
\* on a tick whose completed read gave a byte other than 0xFF.
C16_WaitReadyPollsWhileDummy ==
  [][ TickSdCardWaitReady /\ QueryComplete(Cur)
        => IF Peek(Cur) = SSP_DUMMY_BYTE THEN WaitReadyPollsAgain ELSE WaitReadySendsFrame ]_vars

\* C16 as amended: SdCardWaitReady reads another byte while the byte just
\* read is other than 0xFF, and sends the command frame, going to
\* SdCardWaitCommand, only on a tick whose completed read gave 0xFF; a tick
\* whose read has not completed submits nothing.
C16_WaitReadyPollsUntilDummy ==
  [][ TickSdCardWaitReady
        => IF ~QueryComplete(Cur)
           THEN sspQueue' = sspQueue /\ G_SdCardStateMachine' \in {"SdCardWaitReady", "SdError"}
           ELSE IF Peek(Cur) # SSP_DUMMY_BYTE THEN WaitReadyPollsAgain
           ELSE WaitReadySendsFrame ]_vars

\* CMD0 has gone out after the card gave a busy byte and then 0xFF
C16_Witness ==
  /\ G_SdCardStateMachine = "SdCardWaitCommand"
  /\ cyc.frame[1] = "CMD0"
  /\ SD_au8RxBuffer[SD_WAKEUP_BYTES] = SD_STATUS_READY
  /\ SD_au8RxBuffer[SD_WAKEUP_BYTES + 1] = SSP_DUMMY_BYTE
  /\ SD_pu8RxBufferNextByte = SD_WAKEUP_BYTES + 2
  /\ faults = 1
  /\ sspGrants = 1


\* For each command sent, no more than SD_CMD_RETRIES further bytes are read
\* for its response, and a tick of SdCardWaitCommand reads one more exactly
\* when the byte just read has BIT7 set and the counter is not zero.
RetriesAreBounded ==
  /\ [](cyc.extra <= SD_CMD_RETRIES /\ u8Retries \in 0 .. SD_CMD_RETRIES)
  /\ [][ TickSdCardWaitCommand /\ QueryComplete(Cur) /\ HasBit7(Peek(Cur)) /\ u8Retries # 0
           => /\ Submitted("resp")
              /\ cyc'.extra = cyc.extra + 1
              /\ G_SdCardStateMachine' \in {"SdCardWaitCommand", "SdError"} ]_vars

\* C17 as claimed: in SdCardWaitCommand at most SD_CMD_RETRIES further bytes
\* are read per command while the response has BIT7 set; on the first
\* response with BIT7 clear, or with the counter at zero, the counter is set
\* to SD_CMD_RETRIES and the driver goes on in SD_WaitReturnState.
C17_WaitCommandResumesFollowUp ==
  /\ RetriesAreBounded
  /\ [][ /\ TickSdCardWaitCommand
         /\ QueryComplete(Cur)
         /\ ~(HasBit7(Peek(Cur)) /\ u8Retries # 0)
         => /\ u8Retries' = SD_CMD_RETRIES
            /\ G_SdCardStateMachine' = SD_WaitReturnState
            /\ sspQueue' = sspQueue ]_vars

\* C17 as amended: ... the counter is set to SD_CMD_RETRIES and the driver
\* goes on in SD_WaitReturnState, unless that tick finds SD_WAIT_TIME elapsed:
\* then the counter is set to SD_CMD_RETRIES all the same and the driver goes
\* to SdError with SD_ERROR_TIMEOUT.
C17_WaitCommandResumesUnlessTimeUp ==
  /\ RetriesAreBounded
  /\ [][ /\ TickSdCardWaitCommand
         /\ QueryComplete(Cur)
         /\ ~(HasBit7(Peek(Cur)) /\ u8Retries # 0)
         => /\ u8Retries' = SD_CMD_RETRIES
            /\ sspQueue' = sspQueue
            /\ IF Expired(SD_WAIT_TIME)
               THEN G_SdCardStateMachine' = "SdError" /\ SD_u8ErrorCode' = "SD_ERROR_TIMEOUT"
               ELSE G_SdCardStateMachine' = SD_WaitReturnState ]_vars

\* CMD0 got no response in the frame nor in the SD_CMD_RETRIES bytes read
\* after it, and the driver has gone on to look at the response
C17_Witness ==
  /\ G_SdCardStateMachine = "SdCardResponseCMD0"
  /\ SD_NextCommand = "CMD0"
  /\ cyc.extra = SD_CMD_RETRIES
  /\ u8Retries = SD_CMD_RETRIES
  /\ HasBit7(SD_au8RxBuffer[SD_pu8RxBufferParser])
  /\ msgComplete


\* C18: the time SdCardWaitCommand watches runs from the tick that sent the
\* command frame (the driver enters the state with the timer at zero and no
\* tick that stays in it restarts the timer), and the tick that finds
\* SD_WAIT_TIME elapsed goes to SdError with SD_ERROR_TIMEOUT, whatever
\* u8Retries is and whether or not the response has come.
C18_WaitCommandTimeUpWins ==
  [][ /\ TickSdCardWaitReady /\ G_SdCardStateMachine' = "SdCardWaitCommand"
          => elapsed' = 0 /\ Submitted("cmd")
      /\ TickSdCardWaitCommand /\ G_SdCardStateMachine' = "SdCardWaitCommand"
          => elapsed' = elapsed + 1
      /\ TickSdCardWaitCommand /\ Expired(SD_WAIT_TIME)
          => /\ G_SdCardStateMachine' = "SdError"
             /\ SD_u8ErrorCode' = "SD_ERROR_TIMEOUT" ]_vars

\* SD_WAIT_TIME ran out on the tick that saw the idle response to CMD0
C18_Witness ==
  /\ G_SdCardStateMachine = "SdError"
  /\ SD_u8ErrorCode = "SD_ERROR_TIMEOUT"
  /\ SD_NextCommand = "CMD0"
  /\ SD_WaitReturnState = "SdCardResponseCMD0"
  /\ cyc.frame[1] = "CMD0"
  /\ msgComplete
  /\ SD_au8RxBuffer[SD_pu8RxBufferParser] = SD_STATUS_IDLE
  /\ elapsed = SD_WAIT_TIME
  /\ faults = 0


\* C19 as claimed: whatever transfer the driver submits (the wake-up read, a
\* single-byte read, the command frame, the 4-byte reads behind CMD8 and
\* CMD58, the block read), a token of zero makes that tick record
\* SD_ERROR_NO_TOKEN and go to SdError or SdFailedDataTransfer.
C19_RefusedSubmissionIsNoToken ==
  [][ refused' # {}
        => /\ SD_u8ErrorCode' = "SD_ERROR_NO_TOKEN"
           /\ G_SdCardStateMachine' \in ErrorPaths ]_vars

\* The submissions whose token the code does test: all but the command frame
\* and the reads for the start token and the block.  A refusal sends the tick
\* to SdError with SD_ERROR_NO_TOKEN; the time-up test that follows in the
\* same state function overwrites the code when the period is over as well.
TestedSubmissionsAreNoToken ==
  [][ refused' \cap {"wake", "ready", "resp", "echo", "ocr"} # {}
        => /\ G_SdCardStateMachine' = "SdError"
           /\ \/ SD_u8ErrorCode' = "SD_ERROR_NO_TOKEN"
              \/ /\ SD_u8ErrorCode' = "SD_ERROR_TIMEOUT"
                 /\ elapsed' >= (IF G_SdCardStateMachine = "SdCardWaitCommand"
                                 THEN SD_WAIT_TIME ELSE SD_SPI_WAIT_TIME_MS) ]_vars


\* What C20 says apart from the error code: a voltage byte that differs sends
\* the tick that sees the echo complete to SdError, such a cycle is never in
\* SdCardReadyIdle, and an echo that matches in both bytes has CMD55
\* dispatched with SdCardACMD41 to follow.
EchoDecidesTheCycle ==
  /\ [][ /\ TickSdCardReadCMD8 /\ QueryComplete(Cur) /\ cyc.vhs = "differ"
             => G_SdCardStateMachine' = "SdError"
         /\ TickSdCardReadCMD8 /\ QueryComplete(Cur) /\ Cmd8Accepted
             => Cmd55Dispatched ]_vars
  /\ [](cyc.vhs = "differ" => G_SdCardStateMachine # "SdCardReadyIdle")

\* C20 as claimed: in SdCardReadCMD8, when the 4-byte read is complete and the
\* third byte differs from SD_VHS_VALUE, the driver goes to SdError with
\* SD_ERROR_CARD_VOLTAGE and the cycle never reaches SdCardReadyIdle; when the
\* third and fourth byte both match, CMD55 is dispatched with SdCardACMD41 to
\* follow.
C20_VoltageMismatchIsCardVoltage ==
  /\ EchoDecidesTheCycle
  /\ [][ TickSdCardReadCMD8 /\ QueryComplete(Cur) /\ cyc.vhs = "differ"
           => SD_u8ErrorCode' = "SD_ERROR_CARD_VOLTAGE" ]_vars


\* the position at which the four bytes of the transfer that has just
\* completed begin
EchoStart == (SD_pu8RxBufferNextByte + SDCARD_RX_BUFFER_SIZE - 4) % SDCARD_RX_BUFFER_SIZE

\* C21: the tick of SdCardReadCMD8 that sees the 4-byte read complete leaves
\* SdCardReadCMD8, and the four bytes are parsed once: every tick that parses
\* them finds the cursor at their first byte, so none parses them again.
C21_EchoParsedOnce ==
  [][ TickSdCardReadCMD8 /\ QueryComplete(Cur)
        => /\ G_SdCardStateMachine' # "SdCardReadCMD8"
           /\ SD_pu8RxBufferParser = EchoStart ]_vars

\* What the code does with an echo whose voltage byte matches and whose check
\* pattern does not: unless the period is over, the state pointer stays at
\* SdCardReadCMD8 with the cursor four bytes on and the read still complete, so
\* the next tick parses the four bytes that follow.
WrongPatternIsParsedAgain ==
  [][ /\ TickSdCardReadCMD8 /\ QueryComplete(Cur)
      /\ Peek(Adv(Cur, 2)) = SD_VHS_VALUE /\ Peek(Adv(Cur, 3)) # SD_CHECK_PATTERN
      /\ ~Expired(SD_SPI_WAIT_TIME_MS)
      => /\ G_SdCardStateMachine' = "SdCardReadCMD8"
         /\ SD_pu8RxBufferParser' = AdvanceSD_pu8RxBufferParser(SD_pu8RxBufferParser, 4)
         /\ QueryComplete(Cur)' ]_vars

\* a tick of SdCardReadCMD8 that parses bytes the echo read did not deliver
C21_ParsedAgain ==
  /\ G_SdCardStateMachine = "SdCardReadCMD8"
  /\ msgComplete /\ SD_u32CurrentMsgToken # 0
  /\ SD_pu8RxBufferParser = SD_pu8RxBufferNextByte

\* the step puts the ACMD41 frame on the bus
Acmd41Sent == TickSdCardWaitReady /\ cyc'.n41 = cyc.n41 + 1

\* C22: whenever the ACMD41 frame goes out, over any number of detection
\* cycles, bit 30 of its argument (BIT6 of SD_au8ACMD41[1]) is set exactly when
\* _SD_TYPE_SD2 is set.
C22_Acmd41HcsIffTypeV2 ==
  [][ Acmd41Sent
        => /\ cyc'.frame[1] = "ACMD41"
           /\ (cyc'.frame[2][1] = BIT6) <=> ("SD2" \in SD_u32Flags) ]_vars

\* What the code keeps: the bit is set for every version 2 card, and a bit once
\* set is never cleared again.
Acmd41HcsIsSticky ==
  [][ /\ Acmd41Sent /\ "SD2" \in SD_u32Flags => cyc'.frame[2][1] = BIT6
      /\ SD_au8ACMD41 = BIT6 => SD_au8ACMD41' = BIT6 ]_vars

\* the states of the poll loop: CMD55 and ACMD41 on their way and answered
PollLoop ==
  {"SdCardWaitReady", "SdCardWaitCommand", "SdCardACMD41", "SdCardResponseACMD41"}

\* C23: the poll loop has no bound of its own.  Whatever the number of answers
\* so far, a response to ACMD41 that is not ready has CMD55 dispatched again
\* with SdCardACMD41 to follow, the bus still held and no error recorded; and a
\* cycle that has seen such an answer is in the loop, holding the bus, unless a
\* timeout, a refusal or a wrong answer to CMD55 has sent it to the error path:
\* it is never in SdCardReadyIdle.
C23_PollLoopHasNoBound ==
  /\ [][ TickSdCardResponseACMD41 /\ Peek(Cur) # SD_STATUS_READY /\ refused' = {}
           => /\ G_SdCardStateMachine' = "SdCardWaitReady"
              /\ SD_NextCommand' = "CMD55"
              /\ SD_WaitReturnState' = "SdCardACMD41"
              /\ sspOwner' = "sd"
              /\ SD_u8ErrorCode' = SD_u8ErrorCode
              /\ cyc'.notReady = cyc.notReady + 1 ]_vars
  /\ [](cyc.notReady > 0 =>
          \/ G_SdCardStateMachine \in PollLoop /\ sspOwner = "sd"
          \/ G_SdCardStateMachine \in {"SdError", "SdCardWaitSSP", "SdIdleNoCard"})

\* the loop gone round as often as the card has been given busy answers, with
\* every exchange in time
C23_Witness ==
  /\ cyc.notReady = MaxBusy
  /\ cyc.n55 = MaxBusy + 1
  /\ G_SdCardStateMachine = "SdCardWaitCommand"
  /\ SD_NextCommand = "CMD55"
  /\ sspOwner = "sd"
  /\ faults = 0

\* the states of the failed-data-transfer path and of the read it resumes
FailedTransferPath ==
  {"SdFailedDataTransfer", "SdCardWaitSSP", "SdCardResponseCMD17", "SdCardWaitStartToken"}

\* C24: SdCardResponseCMD17 advances the cursor by 1 whatever the response; on
\* a response other than ready it hands over to SdFailedDataTransfer and leaves
\* the status and the flags alone; SdFailedDataTransfer sets the status to
\* SD_CARD_ERROR, leaves the flags alone and does not name SdIdleNoCard as the
\* state to resume; and while the status is SD_CARD_ERROR the driver is never
\* in SdError nor back in detection.
C24_BadCmd17ResponseFailsTransfer ==
  /\ [][ TickSdCardResponseCMD17
           => /\ SD_pu8RxBufferParser' = AdvanceSD_pu8RxBufferParser(SD_pu8RxBufferParser, 1)
              /\ Peek(Cur) # SD_STATUS_READY
                   => /\ G_SdCardStateMachine' = "SdFailedDataTransfer"
                      /\ SD_u8ErrorCode' = "SD_ERROR_BAD_RESPONSE"
                      /\ SD_CardState' = SD_CardState
                      /\ SD_u32Flags' = SD_u32Flags
                      /\ SD_WaitReturnState' = SD_WaitReturnState ]_vars
  /\ [][ TickSdFailedDataTransfer
           => /\ SD_CardState' = "SD_CARD_ERROR"
              /\ SD_u32Flags' = SD_u32Flags
              /\ SD_WaitReturnState' # "SdIdleNoCard" ]_vars
  /\ [](SD_CardState = "SD_CARD_ERROR" => G_SdCardStateMachine \in FailedTransferPath)

\* a card that has answered CMD17 with an error while the bus was held: the
\* read has failed, the card is still known by its type
C24_Witness ==
  /\ SD_CardState = "SD_CARD_ERROR"
  /\ SD_u8ErrorCode = "SD_ERROR_BAD_RESPONSE"
  /\ G_SdCardStateMachine = "SdCardWaitSSP"
  /\ cyc.frame[1] = "CMD17"
  /\ TypeBits # {}

\* a 514-byte read is among the transfers the bus layer has not finished
BlockInFlight(q) == \E i \in 1 .. Len(q) : q[i].what = "block"

\* the step queues the 514-byte read
BlockReadQueued == BlockInFlight(sspQueue') /\ ~BlockInFlight(sspQueue)

\* What holds of SdCardWaitStartToken whenever the period ends: the block read
\* is queued only by a tick of this state that finds a completed read with
\* TOKEN_START_BLOCK under the cursor, and both cursors are then at
\* SD_au8RxBuffer[0]; a completed read with another byte has one more byte
\* read; a tick that finds SD_READ_TOKEN_MS over hands over to
\* SdFailedDataTransfer, whose tick sets SD_CARD_ERROR and abandons what is
\* queued.
StartTokenStartsBlockRead ==
  /\ [][ BlockReadQueued
           => /\ TickSdCardWaitStartToken
              /\ QueryComplete(Cur) /\ Peek(Cur) = TOKEN_START_BLOCK
              /\ SD_pu8RxBufferParser' = 0 /\ SD_pu8RxBufferNextByte' = 0 ]_vars
  /\ [][ TickSdCardWaitStartToken /\ QueryComplete(Cur) /\ Peek(Cur) # TOKEN_START_BLOCK
           => Submitted("token") ]_vars
  /\ [][ TickSdCardWaitStartToken /\ Expired(SD_READ_TOKEN_MS)
           => G_SdCardStateMachine' = "SdFailedDataTransfer" ]_vars
  /\ [][ TickSdFailedDataTransfer
           => SD_CardState' = "SD_CARD_ERROR" /\ sspQueue' = << >> ]_vars

\* C25 as claimed: all of the above, and a tick of SdCardWaitStartToken that
\* leaves for SdFailedDataTransfer because the period is over leaves no block
\* read in flight.
C25_TimeoutLeavesNoBlockRead ==
  /\ StartTokenStartsBlockRead
  /\ [][ TickSdCardWaitStartToken /\ Expired(SD_READ_TOKEN_MS)
           => ~BlockInFlight(sspQueue') ]_vars

\* What holds of SdCardDataTransfer whenever the period ends: a completed block
\* read has the bus released, both cursors at SD_au8RxBuffer[0] and the status
\* SD_DATA_READY; a tick that finds SD_SECTOR_READ_TIMEOUT_MS over hands over
\* to SdError, never to SdFailedDataTransfer, and SdError sets SD_NO_CARD and
\* resumes in SdIdleNoCard.
BlockReadEndsTransfer ==
  /\ [][ TickSdCardDataTransfer /\ QueryComplete(Cur)
           => /\ sspOwner' = "none"
              /\ SD_pu8RxBufferParser' = 0 /\ SD_pu8RxBufferNextByte' = 0
              /\ SD_CardState' = "SD_DATA_READY"
              /\ G_SdCardStateMachine' \in {"SdCardReadyIdle", "SdError"} ]_vars
  /\ [][ TickSdCardDataTransfer /\ Expired(SD_SECTOR_READ_TIMEOUT_MS)
           => G_SdCardStateMachine' = "SdError" /\ SD_u8ErrorCode' = "SD_ERROR_TIMEOUT" ]_vars
  /\ [][ TickSdCardDataTransfer => G_SdCardStateMachine' # "SdFailedDataTransfer" ]_vars
  /\ [][ TickSdError
           => SD_CardState' = "SD_NO_CARD" /\ SD_WaitReturnState' = "SdIdleNoCard" ]_vars

\* C26 as claimed: all of the above, and the tick of SdCardDataTransfer that
\* sees the block read complete returns the driver to SdCardReadyIdle.
C26_CompletedBlockReadReturnsToReadyIdle ==
  /\ BlockReadEndsTransfer
  /\ [][ TickSdCardDataTransfer /\ QueryComplete(Cur)
           => G_SdCardStateMachine' = "SdCardReadyIdle" ]_vars

\* The super loop never stops: a tick that can change something is taken.  The
\* bus layer owes nothing: a transfer may stay unfinished for ever.
SpecLive == Spec /\ WF_vars(Tick)

\* the states that wait for a transfer the bus layer has been handed
WaitStates ==
  {"SdCardDummies", "SdCardWaitReady", "SdCardWaitCommand", "SdCardReadCMD8",
   "SdCardReadCMD58", "SdCardWaitStartToken", "SdCardDataTransfer"}

\* C27: no state that waits for a transfer holds the driver for ever: from
\* each of them the driver moves on, and when the transfer is never finished
\* the bus is given back in the end.
C27_NoWaitHoldsForever ==
  \A w \in WaitStates :
    /\ (G_SdCardStateMachine = w) ~> (G_SdCardStateMachine # w)
    /\ (G_SdCardStateMachine = w /\ sspOwner = "sd")
         ~> (sspOwner = "none" \/ QueryComplete(Cur))

\* The period each of the other waiting states watches.
WaitPeriod(w) ==
  CASE w = "SdCardWaitCommand"    -> SD_WAIT_TIME
    [] w = "SdCardWaitStartToken" -> SD_READ_TOKEN_MS
    [] w = "SdCardDataTransfer"   -> SD_SECTOR_READ_TIMEOUT_MS
    [] OTHER                      -> SD_SPI_WAIT_TIME_MS

\* A state that watches a period is left before the period is over or by the
\* tick that finds it over: the driver is never seen in it later than that.
TimedWaitsEnd ==
  G_SdCardStateMachine \in WaitStates \ {"SdCardDummies"}
    => elapsed < WaitPeriod(G_SdCardStateMachine)

\* SdCardDummies with the wake-up read unfinished: no tick changes anything.
DummiesHoldsTheBus ==
  [][ TickSdCardDummies /\ ~QueryComplete(Cur)
        => G_SdCardStateMachine' = "SdCardDummies" /\ sspOwner' = "sd" ]_vars

\* C28: in every reachable state the parser has been advanced, since the
\* cursors were last set to the same place by a flush or a reset, by no more
\* bytes than the bus layer has stored since then.
C28_ParserNeverPastWriter == cyc.lead <= 0

\* The furthest the parser gets ahead when every transfer is accepted and
\* nothing is parsed twice: the command frame less the ready byte.
FrameLead == SD_CMD_SIZE - 1

\* With the periods of this model the parser is never further ahead than that.
ParserLeadsByLessThanAFrame == cyc.lead <= FrameLead

\* The positions, counted from the parser, that the state function about to
\* run dereferences: *SD_pu8RxBufferParser after the advances made before it.
ReadOffsets(r) ==
  CASE r.sm \in {"SdCardResponseCMD0", "SdCardResponseCMD8", "SdCardACMD41",
                 "SdCardResponseACMD41", "SdCardResponseCMD58", "SdCardResponseCMD16",
                 "SdCardResponseCMD17"}
         -> {0}
    [] r.sm \in {"SdCardWaitReady", "SdCardWaitCommand", "SdCardWaitStartToken",
                 "SdCardReadCMD58"}
         -> IF QueryComplete(r) THEN {0} ELSE {}
    [] r.sm = "SdCardReadCMD8"
         -> IF ~QueryComplete(r) THEN {}
            ELSE IF Peek(Adv(r, 2)) = SD_VHS_VALUE THEN {2, 3} ELSE {2}
    [] OTHER -> {}

\* C29: a state function reads only bytes the bus layer has stored since the
\* cursors were last set to the same place: every position it reads is before
\* the write cursor.
C29_ReadsOnlyDeliveredBytes ==
  \A o \in ReadOffsets(Cur) : cyc.lead + o < 0

\* The same while the bus is held and SdCardReadCMD8 parses for the first time.
ReadsWhileOwnerAreDelivered ==
  sspOwner = "sd" /\ ~(G_SdCardStateMachine = "SdCardReadCMD8" /\ cyc.lead >= 0 - 1)
    => \A o \in ReadOffsets(Cur) : cyc.lead + o < 0

\* The tick asks for the bus and is not given it: SdIdleNoCard asks whenever it
\* finds a card, SdCardReadyIdle whenever it finds the card and a request.
RequestFailed ==
  /\ \/ TickSdIdleNoCard
     \/ TickSdCardReadyIdle /\ SD_CardState \in {"SD_READING", "SD_WRITING"}
  /\ "INSERTED" \in SD_u32Flags'
  /\ sspOwner' # "sd"

\* the driver waits to ask again for the bus it was not given
RequestUnsatisfied ==
  /\ G_SdCardStateMachine = "SdCardWaitSSP"
  /\ SD_WaitReturnState \in {"SdIdleNoCard", "SdCardReadyIdle"}

\* C30: a request for the bus that fails in SdIdleNoCard or SdCardReadyIdle
\* starts the timer and sends the driver to SdCardWaitSSP with the asking state
\* to resume and nothing submitted; SdCardWaitSSP asks for nothing and submits
\* nothing, stays until SD_SPI_WAIT_TIME_MS is over and then resumes that
\* state; while the driver waits no transfer is queued; a read that waits keeps
\* the status SD_READING as long as no poll finds the card gone; and the state
\* resumed asks again.
C30_FailedRequestWaitsAndRetries ==
  /\ [][ RequestFailed
           => /\ G_SdCardStateMachine' = "SdCardWaitSSP"
              /\ SD_WaitReturnState' = G_SdCardStateMachine
              /\ elapsed' = 0
              /\ SD_CardState' = SD_CardState
              /\ sspQueue' = sspQueue /\ sspGrants' = sspGrants
              /\ SD_u32CurrentMsgToken' = SD_u32CurrentMsgToken
              /\ unowned' = {} /\ refused' = {} ]_vars
  /\ [][ TickSdCardWaitSSP
           => /\ sspGrants' = sspGrants /\ sspOwner' = sspOwner /\ SD_Ssp' = SD_Ssp
              /\ sspQueue' = sspQueue
              /\ SD_u32CurrentMsgToken' = SD_u32CurrentMsgToken
              /\ SD_CardState' = SD_CardState
              /\ SD_WaitReturnState' = SD_WaitReturnState
              /\ G_SdCardStateMachine' = IF Expired(SD_SPI_WAIT_TIME_MS)
                                         THEN SD_WaitReturnState
                                         ELSE "SdCardWaitSSP" ]_vars
  /\ [](RequestUnsatisfied => sspQueue = << >> /\ sspOwner = "none")
  /\ [][ /\ RequestUnsatisfied /\ SD_WaitReturnState = "SdCardReadyIdle"
         /\ SD_CardState = "SD_READING" /\ ret'.pin # "absent"
         => SD_CardState' = "SD_READING" ]_vars
  /\ [][ /\ TickSdCardReadyIdle /\ SD_CardState = "SD_READING" /\ "INSERTED" \in SD_u32Flags'
         => \/ sspGrants' = sspGrants + 1
            \/ RequestFailed ]_vars

\* a read that was not given the bus, waited and is back in SdCardReadyIdle,
\* about to ask again
C30_Witness ==
  /\ G_SdCardStateMachine = "SdCardReadyIdle"
  /\ SD_WaitReturnState = "SdCardReadyIdle"
  /\ SD_CardState = "SD_READING"
  /\ SD_Ssp = "NULL"
  /\ sspOwner = "none"
  /\ elapsed >= SD_SPI_WAIT_TIME_MS

\* the same in detection: not given the bus, waited, back in SdIdleNoCard
C30_NoCardWaited ==
  /\ G_SdCardStateMachine = "SdIdleNoCard"
  /\ SD_WaitReturnState = "SdIdleNoCard"
  /\ SD_Ssp = "NULL"
  /\ sspGrants = 0
  /\ faults > 0

\* The step hands the bus layer a transfer of one of the given kinds.
Queues(kinds) ==
  /\ Len(sspQueue') = Len(sspQueue) + 1
  /\ sspQueue'[Len(sspQueue')].what \in kinds

\* C31: every transfer that is then waited for under a period (a single-byte
\* poll for SdCardWaitReady, the 4-byte reads for SdCardReadCMD8 and
\* SdCardReadCMD58, the 514-byte read for SdCardDataTransfer) has the timer
\* started when it is submitted.
C31_TimerStartsAtSubmission ==
  [][ Queues({"ready", "echo", "ocr", "block"}) => elapsed' = 0 ]_vars

\* Where the timer is started: by SdCommand with its first poll, by
\* SdCardWaitReady with the frame, by SdCardResponseCMD17 with the first read
\* for the start token, and by the states that wait for the bus.
TimerStartsWithCommand ==
  [][ /\ Queues({"cmd"}) => elapsed' = 0
      /\ Queues({"ready"}) /\ ~TickSdCardWaitReady => elapsed' = 0
      /\ Queues({"token"}) /\ TickSdCardResponseCMD17 => elapsed' = 0
      /\ Queues({"echo", "ocr", "block"}) \/ (Queues({"ready"}) /\ TickSdCardWaitReady)
           => elapsed' = elapsed + 1 ]_vars

\* C32: SspRelease is called only while the driver holds the bus: never twice
\* for one request that succeeded and never without one.
C32_ReleaseOnlyWhileOwner == "SspRelease" \notin unowned

\* The releases that end an initialisation or a read are made with the bus
\* held; the ones made without it are those of SdError and
\* SdFailedDataTransfer.
ReleaseWithoutBusIsOnErrorPaths ==
  [][ "SspRelease" \in unowned' => TickSdError \/ TickSdFailedDataTransfer ]_vars

\* SdError releasing a bus that the tick before has released already: the
\* read or the initialisation was complete on the tick its period ended
C32_ReleasedTwice ==
  /\ "SspRelease" \in unowned
  /\ G_SdCardStateMachine = "SdCardWaitSSP"
  /\ SD_WaitReturnState = "SdIdleNoCard"
  /\ SD_u8ErrorCode = "SD_ERROR_TIMEOUT"

\* SdFailedDataTransfer releasing again on re-entry after a failed transfer
C32_ReleasedOnReentry ==
  /\ "SspRelease" \in unowned
  /\ SD_CardState = "SD_CARD_ERROR"
  /\ SD_WaitReturnState = "SdCardResponseCMD17"

\* C33: in every state between two ticks, a status of SD_IDLE or SD_DATA_READY
\* means that the driver does not hold the bus and that no transfer of its own
\* is unfinished.
C33_IdleOrDataReadyMeansBusFree ==
  SD_CardState \in {"SD_IDLE", "SD_DATA_READY"}
    => sspOwner = "none" /\ sspQueue = << >>

\* a block has just been read: the status is SD_DATA_READY, the bus given back
C33_Witness ==
  /\ SD_CardState = "SD_DATA_READY"
  /\ G_SdCardStateMachine = "SdCardReadyIdle"
  /\ sspGrants = 2
  /\ sspOwner = "none"

\* C34: _SD_TYPE_SD1 and _SD_TYPE_SD2 are never both set and _SD_CARD_HC is set
\* only with _SD_TYPE_SD2; with the status SD_IDLE, SD_READING or
\* SD_DATA_READY exactly one of the two type bits is set and _SD_CARD_HC is
\* what the detection cycle of this card has found, so SdReadBlock converts
\* the address for the card that is in the slot.
C34_TypeFlagsAreConsistent ==
  /\ ~({"SD1", "SD2"} \subseteq SD_u32Flags)
  /\ "HC" \in SD_u32Flags => "SD2" \in SD_u32Flags
  /\ SD_CardState \in {"SD_IDLE", "SD_READING", "SD_DATA_READY"}
       => /\ TypeBits \ {"HC"} \in {{"SD1"}, {"SD2"}}
          /\ "SD1" \in SD_u32Flags <=> cyc.cmd8 = "other"
          /\ "HC" \in SD_u32Flags <=> (Cmd8Accepted /\ cyc.ccs = "set")

\* a read accepted for a high-capacity card: the sector address is not scaled
C34_Witness ==
  /\ ret.fn = "SdReadBlock" /\ ret.val = TRUE
  /\ SD_CardState = "SD_READING"
  /\ TypeBits = {"SD2", "HC"}
  /\ SD_u32Address \in Sectors

\* the same for a version 1 card: the address is the byte address
C34_LowCapacityRead ==
  /\ ret.fn = "SdReadBlock" /\ ret.val = TRUE
  /\ TypeBits = {"SD1"}
  /\ \E s \in Sectors : SD_u32Address = MulSector(s)

\* C35: SdCardWaitCommand is entered for a command with u8Retries at
\* SD_CMD_RETRIES, because every tick that leaves SdCardWaitCommand, for the
\* state to resume or for SdError, has set it back to SD_CMD_RETRIES.
C35_RetriesRestoredOnLeaving ==
  /\ [][ TickSdCardWaitReady /\ G_SdCardStateMachine' = "SdCardWaitCommand"
           => u8Retries' = SD_CMD_RETRIES ]_vars
  /\ [][ TickSdCardWaitCommand /\ G_SdCardStateMachine' # "SdCardWaitCommand"
           => u8Retries' = SD_CMD_RETRIES ]_vars

\* The ways out that do restore it: a response taken, the polls used up, the
\* period over.
RetriesRestoredUnlessRefused ==
  [][ TickSdCardWaitCommand /\ G_SdCardStateMachine' # "SdCardWaitCommand" /\ refused' = {}
        => u8Retries' = SD_CMD_RETRIES ]_vars

\* SdError entered from SdCardWaitCommand with the counter used up
C35_CounterLeftUsedUp ==
  /\ G_SdCardStateMachine = "SdError"
  /\ SD_u8ErrorCode = "SD_ERROR_NO_TOKEN"
  /\ u8Retries < SD_CMD_RETRIES

\* the bytes SdGetReadData would hand out
BlockInBuffer == [i \in 0 .. (BlockBytes - 1) |-> SD_au8RxBuffer[i]]

\* the step is one that may end SD_DATA_READY: the client fetches the block, or
\* the card is found gone
DataFetchedOrCardGone ==
  \/ ret'.fn = "SdGetReadData"
  \/ TickSdCardReadyIdle /\ "INSERTED" \notin SD_u32Flags'
  \/ ret'.pin = "absent"

\* C36: from the status SD_DATA_READY every other step leaves the status
\* SD_DATA_READY and the block in the buffer as they are and submits nothing;
\* no tick makes SD_NO_CARD of SD_DATA_READY while the card is in the slot.
C36_DataReadyIsKept ==
  [][ SD_CardState = "SD_DATA_READY" /\ ~DataFetchedOrCardGone
        => /\ SD_CardState' = "SD_DATA_READY"
           /\ BlockInBuffer' = BlockInBuffer
           /\ sspQueue' = sspQueue
           /\ unowned' \cap BusOperations = {} ]_vars

\* The same once the driver is back in SdCardReadyIdle: there it stays, with
\* the status and the block, until the block is fetched or the card is gone.
DataReadyIsKeptInReadyIdle ==
  [][ /\ SD_CardState = "SD_DATA_READY" /\ G_SdCardStateMachine = "SdCardReadyIdle"
      /\ ~DataFetchedOrCardGone
      => /\ SD_CardState' = "SD_DATA_READY"
         /\ G_SdCardStateMachine' = "SdCardReadyIdle"
         /\ BlockInBuffer' = BlockInBuffer
         /\ sspQueue' = sspQueue /\ sspOwner' = "none"
         /\ unowned' = {} ]_vars

\* the block has arrived on the tick the period ended: SD_DATA_READY in SdError
C36_DataReadyInSdError ==
  SD_CardState = "SD_DATA_READY" /\ G_SdCardStateMachine = "SdError"

(***************************************************************************)
(* A card that is ready: the states SdCardReadyIdle is in when detection   *)
(* has ended, for a high-capacity card (SdCardReadCMD58) and for a version *)
(* 1 card (SdCardResponseCMD16), and no call has been made for longer than *)
(* any period.  Both are states of Spec.  The bus was granted once, for    *)
(* detection; one grant, refusal or wrong answer is left for what follows. *)
(***************************************************************************)
ReadyCard(flags, last, buffer, acmd41, seen) ==
  /\ G_SdCardStateMachine = "SdCardReadyIdle"
  /\ SD_u32Flags = {"INSERTED"} \cup flags
  /\ SD_CardState = "SD_IDLE"
  /\ SD_u8ErrorCode = "none"
  /\ SD_WaitReturnState = last
  /\ SD_NextCommand = seen.frame[1]
  /\ SD_Ssp = "SSP0"
  /\ SD_au8RxBuffer = buffer
  /\ SD_pu8RxBufferNextByte = 1
  /\ SD_pu8RxBufferParser = 1
  /\ elapsed = TimeCap
  /\ SD_u32CurrentMsgToken = 1
  /\ SD_u32Address = << 0, 0 >>
  /\ SD_au8CMD17 = << 0, 0, 0, 0 >>
  /\ SD_au8ACMD41 = acmd41
  /\ u8Retries = SD_CMD_RETRIES
  /\ sspOwner = "none"
  /\ sspGrants = 1
  /\ faults = MaxEvents - 2
  /\ sspCS = FALSE
  /\ sspQueue = << >>
  /\ msgComplete = TRUE
  /\ ret = NoCall
  /\ cyc = seen
  /\ unowned = {}
  /\ refused = {}

HighCapacityCard ==
  ReadyCard({"SD2", "HC"}, "SdCardResponseCMD58",
            [i \in Index |-> CASE i \in {0, 4} -> 0
                               [] i = 5 -> 192
                               [] i = 7 -> 128
                               [] OTHER -> SSP_DUMMY_BYTE],
            64,
            [NewCycle EXCEPT !.cmd8 = "idle", !.vhs = "match", !.pat = "match",
                             !.ccs = "set",
                             !.frame = << "CMD58", << 0, 0, 0, 0 >> >>])

Version1Card ==
  ReadyCard({"SD1"}, "SdCardResponseCMD16",
            [i \in Index |-> IF i = 0 THEN 0 ELSE SSP_DUMMY_BYTE],
            0,
            [NewCycle EXCEPT !.cmd8 = "other", !.cmd16 = "ready",
                             !.frame = << "CMD16", << 0, 0, 2, 0 >> >>])

InitRead ==
  /\ HighCapacityCard \/ Version1Card
  /\ advC = 0 /\ advN = 0 /\ advR = NotRun

\* The super loop runs for ever: a pass that can change something is made.
SpecRead == InitRead /\ [][Next]_vars /\ WF_vars(Tick)

\* C37: the status never goes from SD_READING straight to SD_IDLE: the only
\* statuses that follow SD_READING are SD_DATA_READY, SD_CARD_ERROR and
\* SD_NO_CARD; and a read for which the bus has been granted ends, as long as
\* the ticks go on: the status becomes one of these three.
C37_ReadEnds ==
  /\ [][ SD_CardState = "SD_READING" =>
          SD_CardState' \in {"SD_READING", "SD_DATA_READY", "SD_CARD_ERROR", "SD_NO_CARD"} ]_vars
  /\ (SD_CardState = "SD_READING" /\ sspOwner = "sd")
       ~> (SD_CardState \in {"SD_DATA_READY", "SD_CARD_ERROR", "SD_NO_CARD"})

\* a read under way: accepted, the bus granted, CMD17 on the bus
C37_Witness ==
  /\ SD_CardState = "SD_READING"
  /\ sspOwner = "sd"
  /\ G_SdCardStateMachine = "SdCardWaitCommand"
  /\ SD_NextCommand = "CMD17"

\* C8: advancing the cursor by n from any index c of the buffer gives
\* (c + n) mod SDCARD_RX_BUFFER_SIZE, which is an index of the buffer.
C8_AdvanceIsModular ==
  advR # NotRun =>
    /\ advR = (advC + advN) % SDCARD_RX_BUFFER_SIZE
    /\ advR \in Index

\* the cursor has been advanced from the last element by more than two laps
C8_Witness ==
  /\ advR # NotRun
  /\ advC = SDCARD_RX_BUFFER_SIZE - 1
  /\ advN > 2 * SDCARD_RX_BUFFER_SIZE

====
